---------------------------- MODULE Spec2Model ----------------------------
(***************************************************************************)
(* Documentation-coverage tools of mcpany/core:                            *)
(*   server/tools/fix_ts_docs.py     (fix mode, process_file)              *)
(*   server/tools/check_ts_doc.py    (check mode, line based)              *)
(*   ui/tools/check_jsdoc.py         (check mode, content based)           *)
(*   server/scripts/check_ts_docs.py (check mode, report only)             *)
(* and the Python client of the SDK:                                       *)
(*   sdk/python/mcpany/client.py     (Client: connect, close, call_tool)   *)
(* Text is modelled character by character: a Python str is a TLA+ string, *)
(* a list of lines is a sequence of strings, list indices are the 0-based  *)
(* indices of the source.                                                  *)
(***************************************************************************)
EXTENDS Integers, Sequences, FiniteSets, TLC

VARIABLES
    fs,          \* the file tree: sequence of [path, content, readable] in os.walk
                 \* order
    tool,        \* the program that is running ("idle" when none is)
    pc,          \* its position: "idle" | "walk" | "write" (fix mode, between open
                 \* for writing and close) | "done" | "aborted" (ended by an
                 \* uncaught exception) | "killed" (stopped from outside)
    idx,         \* number of files of the tree the walk has already visited
    missing,     \* check mode: the diagnostics accumulated so far
    has_errors,  \* check_ts_doc.main: has_errors
    stdout,      \* lines printed by the current run
    exit_code,   \* exit status of the finished run (-1 while none has finished)
    applied,     \* fix mode: doc blocks inserted/updated by the current run
    opened_w,    \* fix mode: paths opened for writing by the current run
    before,      \* the tree as it was when the current run started
    runs,        \* number of runs started so far
    params_str,  \* extract_params: its argument
    params_out,  \* extract_params: its result (<<>> before the call)
    wbuf,        \* fix mode: text handed to f.write and not yet flushed to the file
    client,      \* sdk/python: the Client object and the outcome of its last call
    shard        \* server/get_shard_packages.py: sys.argv, the lines of sys.stdin,
                 \* packages and selected_packages

vars == <<fs, tool, pc, idx, missing, has_errors, stdout, exit_code, applied,
          opened_w, before, runs, params_str, params_out, wbuf, client, shard>>

-----------------------------------------------------------------------------
(* Python str and list primitives *)

\* s[i-1:i]: the character at the 1-based position i, "" outside the string
Ch(s, i) == IF 1 <= i /\ i <= Len(s) THEN SubSeq(s, i, i) ELSE ""

WhiteSpace == {" ", "\t", "\n", "\r"}

UpperCase == {"A","B","C","D","E","F","G","H","I","J","K","L","M",
              "N","O","P","Q","R","S","T","U","V","W","X","Y","Z"}

LowerCase == {"a","b","c","d","e","f","g","h","i","j","k","l","m",
              "n","o","p","q","r","s","t","u","v","w","x","y","z"}

Digits == {"0","1","2","3","4","5","6","7","8","9"}

\* [a-zA-Z0-9_]
WordChars == UpperCase \cup LowerCase \cup Digits \cup {"_"}

ToLowerChar(c) ==
    CASE c = "A" -> "a" [] c = "B" -> "b" [] c = "C" -> "c" [] c = "D" -> "d"
      [] c = "E" -> "e" [] c = "F" -> "f" [] c = "G" -> "g" [] c = "H" -> "h"
      [] c = "I" -> "i" [] c = "J" -> "j" [] c = "K" -> "k" [] c = "L" -> "l"
      [] c = "M" -> "m" [] c = "N" -> "n" [] c = "O" -> "o" [] c = "P" -> "p"
      [] c = "Q" -> "q" [] c = "R" -> "r" [] c = "S" -> "s" [] c = "T" -> "t"
      [] c = "U" -> "u" [] c = "V" -> "v" [] c = "W" -> "w" [] c = "X" -> "x"
      [] c = "Y" -> "y" [] c = "Z" -> "z" [] OTHER -> c

RECURSIVE Lower(_)
Lower(s) == IF s = "" THEN "" ELSE ToLowerChar(Head(s)) \o Lower(Tail(s))

StartsWith(s, p) == Len(s) >= Len(p) /\ SubSeq(s, 1, Len(p)) = p

EndsWith(s, p) == Len(s) >= Len(p) /\ SubSeq(s, Len(s) - Len(p) + 1, Len(s)) = p

\* s[n:] and s[:n] for n >= 0
From(s, n) == SubSeq(s, n + 1, Len(s))
Upto(s, n) == SubSeq(s, 1, n)

\* 1-based position of the first occurrence of sub in s at or after i, 0 if none
RECURSIVE FindFrom(_, _, _)
FindFrom(s, sub, i) ==
    IF i + Len(sub) - 1 > Len(s) THEN 0
    ELSE IF SubSeq(s, i, i + Len(sub) - 1) = sub THEN i
    ELSE FindFrom(s, sub, i + 1)

\* sub in s
Contains(s, sub) == FindFrom(s, sub, 1) # 0

\* 1-based position of the first character at or after i that is not in cs
RECURSIVE SkipSet(_, _, _)
SkipSet(s, cs, i) ==
    IF i <= Len(s) /\ Ch(s, i) \in cs THEN SkipSet(s, cs, i + 1) ELSE i

\* \s* and [a-zA-Z0-9_]* from position i: the position after the run
SkipWs(s, i) == SkipSet(s, WhiteSpace, i)
SkipWord(s, i) == SkipSet(s, WordChars, i)

\* a literal at position i
LitAt(s, i, lit) ==
    1 <= i /\ i + Len(lit) - 1 <= Len(s) /\ SubSeq(s, i, i + Len(lit) - 1) = lit

RECURSIVE LStripSet(_, _)
LStripSet(s, cs) ==
    IF s # "" /\ Head(s) \in cs THEN LStripSet(Tail(s), cs) ELSE s

RECURSIVE RStripSet(_, _)
RStripSet(s, cs) ==
    IF s # "" /\ Ch(s, Len(s)) \in cs THEN RStripSet(Upto(s, Len(s) - 1), cs) ELSE s

\* str.strip(), str.lstrip(chars)
Strip(s) == RStripSet(LStripSet(s, WhiteSpace), WhiteSpace)

\* str.split(sep) for a one-character sep
RECURSIVE SplitFrom(_, _, _)
SplitFrom(s, sep, start) ==
    LET p == FindFrom(s, sep, start)
    IN  IF p = 0 THEN <<SubSeq(s, start, Len(s))>>
        ELSE <<SubSeq(s, start, p - 1)>> \o SplitFrom(s, sep, p + 1)

Split(s, sep) == SplitFrom(s, sep, 1)

\* sep.join(list)
RECURSIVE Join(_, _)
Join(list, sep) ==
    IF list = <<>> THEN ""
    ELSE IF Len(list) = 1 THEN list[1]
    ELSE LET h == Len(list) \div 2
         IN  Join(SubSeq(list, 1, h), sep) \o sep
                 \o Join(SubSeq(list, h + 1, Len(list)), sep)

\* str.split(sep)[0] for a sep of any length
BeforeFirst(s, sep) ==
    LET p == FindFrom(s, sep, 1) IN IF p = 0 THEN s ELSE Upto(s, p - 1)

\* list[i] for a 0-based, possibly negative i
PyAt(list, i) == IF i < 0 THEN list[Len(list) + i + 1] ELSE list[i + 1]

\* list[a:b] for b >= 0 and a possibly negative
PySlice(list, a, b) ==
    LET lo == IF a < 0 THEN (IF Len(list) + a < 0 THEN 0 ELSE Len(list) + a) ELSE a
        hi == IF b > Len(list) THEN Len(list) ELSE b
    IN  SubSeq(list, lo + 1, hi)

\* list[a:b] = repl for 0 <= a <= b <= len(list)
PySplice(list, a, b, repl) ==
    SubSeq(list, 1, a) \o repl \o SubSeq(list, b + 1, Len(list))

\* number of occurrences of the character c in s[0:n]
RECURSIVE CountCh(_, _, _)
CountCh(s, c, n) ==
    IF n <= 0 THEN 0
    ELSE (IF Ch(s, n) = c THEN 1 ELSE 0) + CountCh(s, c, n - 1)

-----------------------------------------------------------------------------
(* server/tools/fix_ts_docs.py: the synthesizer *)

get_param_desc(name0) ==
    LET n1 == Strip(name0)
        name == IF StartsWith(n1, "_") THEN From(n1, 1) ELSE n1
    IN  IF name = "props" THEN "The component props."
        ELSE IF name = "children" THEN "The child elements."
        ELSE IF name = "className" THEN "The CSS class name."
        ELSE IF name = "ref" THEN "The reference."
        ELSE IF name = "key" THEN "The unique key."
        ELSE IF Contains(Lower(name), "id") THEN "The " \o name \o " identifier."
        ELSE IF Contains(Lower(name), "name") THEN "The " \o name \o " value."
        ELSE IF Contains(Lower(name), "callback") \/ StartsWith(name, "on")
             THEN "The " \o name \o " callback."
        ELSE "The " \o name \o " parameter."

\* re.findall(r'[A-Z][a-z]*', name), lower-cased
RECURSIVE CamelParts(_, _)
CamelParts(name, i) ==
    IF i > Len(name) THEN <<>>
    ELSE IF Ch(name, i) \in UpperCase
         THEN LET e == SkipSet(name, LowerCase, i + 1)
              IN  <<Lower(SubSeq(name, i, e - 1))>> \o CamelParts(name, e)
    ELSE CamelParts(name, i + 1)

\* the description line of generate_doc_lines
DocDescription(name, type_kind) ==
    IF StartsWith(name, "use")
    THEN LET parts == CamelParts(name, 1)
             desc_parts == IF parts = <<>> /\ Len(name) > 3
                           THEN <<Lower(From(name, 3))>> ELSE parts
         IN  IF desc_parts # <<>>
             THEN "Hook to " \o Join(desc_parts, " ") \o "."
             ELSE "Hook to " \o Lower(From(name, 3)) \o "."
    ELSE IF type_kind = "component" THEN name \o " component."
    ELSE IF type_kind = "interface" THEN name \o " interface."
    ELSE IF type_kind = "type" THEN name \o " type definition."
    ELSE name \o " " \o type_kind \o "."

\* the return line(s) of generate_doc_lines
DocReturnLines(name, type_kind) ==
    IF type_kind \in {"function", "method", "hook"}
    THEN IF type_kind # "component"
         THEN <<" * @returns The result of " \o name \o ".">>
         ELSE <<" * @returns The rendered component.">>
    ELSE <<>>

generate_doc_lines(name, type_kind, params) ==
    <<" * " \o DocDescription(name, type_kind)>>
    \o [k \in 1..Len(params) |->
           " * @param " \o params[k] \o " - " \o get_param_desc(params[k])]
    \o DocReturnLines(name, type_kind)

-----------------------------------------------------------------------------
(* server/tools/fix_ts_docs.py: extract_params *)

Openers == {"{", "[", "<", "("}
Closers == {"}", "]", ">", ")"}

\* the depth after reading the character c at depth d
DepthAfter(d, c) ==
    LET d1 == IF c \in Openers THEN d + 1 ELSE d
    IN  IF c \in Closers /\ d1 > 0 THEN d1 - 1 ELSE d1

\* the split of params_str on the commas at depth 0
RECURSIVE SplitArgs(_, _, _, _)
SplitArgs(s, depth, current, args) ==
    IF s = "" THEN (IF current # "" THEN Append(args, current) ELSE args)
    ELSE IF Head(s) = "," /\ depth = 0
         THEN SplitArgs(Tail(s), depth, "", Append(args, current))
    ELSE SplitArgs(Tail(s), DepthAfter(depth, Head(s)), current \o Head(s), args)

\* 0-based index of the first ':' of arg at depth 0, -1 if none
RECURSIVE TypeColon(_, _, _)
TypeColon(arg, i, depth) ==
    IF i > Len(arg) THEN -1
    ELSE LET d == DepthAfter(depth, Ch(arg, i))
         IN  IF Ch(arg, i) = ":" /\ d = 0 THEN i - 1
             ELSE TypeColon(arg, i + 1, d)

\* the name of one argument: type annotation and default value removed
ArgName(arg) ==
    LET split_idx == TypeColon(arg, 1, 0)
        n1 == IF split_idx # -1 THEN Strip(Upto(arg, split_idx)) ELSE Strip(arg)
    IN  IF Contains(n1, "=") THEN Strip(BeforeFirst(n1, "=")) ELSE n1

\* one property of a destructuring pattern
SubProp(sp0) ==
    LET s1 == Strip(sp0)
        s2 == IF Contains(s1, ":") THEN Strip(BeforeFirst(s1, ":")) ELSE s1
    IN  IF Contains(s2, "=") THEN Strip(BeforeFirst(s2, "=")) ELSE s2

\* the parameters one argument contributes
ArgParams(arg0) ==
    LET arg == Strip(arg0)
        arg_name == ArgName(arg)
    IN  IF arg = "" THEN <<>>
        ELSE IF StartsWith(arg_name, "{") /\ EndsWith(arg_name, "}")
        THEN LET inner == SubSeq(arg_name, 2, Len(arg_name) - 1)
                 sub_props == Split(inner, ",")
             IN  SelectSeq([k \in 1..Len(sub_props) |-> SubProp(sub_props[k])],
                           LAMBDA sp : sp # "" /\ sp # "...")
        ELSE IF arg_name # "" /\ arg_name # "..." THEN <<arg_name>> ELSE <<>>

RECURSIVE FlattenParams(_)
FlattenParams(args) ==
    IF args = <<>> THEN <<>>
    ELSE ArgParams(Head(args)) \o FlattenParams(Tail(args))

extract_params(str) ==
    IF str = "" THEN <<>> ELSE FlattenParams(SplitArgs(str, 0, "", <<>>))

-----------------------------------------------------------------------------
(* server/tools/fix_ts_docs.py: parse_docstring *)

\* one line of the block without its comment decoration
DocContent(line0) ==
    LET l1 == Strip(line0)
        l2 == IF StartsWith(l1, "/**") THEN From(l1, 3) ELSE l1
        l3 == IF EndsWith(l2, "*/") THEN Upto(l2, Len(l2) - 2) ELSE l2
    IN  Strip(LStripSet(l3, {"*"}))

\* a dict as the sequence of its items in insertion order
DictHas(d, k) == \E n \in 1..Len(d) : d[n].name = k

DictGet(d, k) == d[CHOOSE n \in 1..Len(d) : d[n].name = k].desc

DictSet(d, k, v) ==
    IF DictHas(d, k)
    THEN [n \in 1..Len(d) |-> IF d[n].name = k THEN [name |-> k, desc |-> v] ELSE d[n]]
    ELSE Append(d, [name |-> k, desc |-> v])

\* re.match(r'@param\s+({[^}]+}|\[[^\]]+\]|[a-zA-Z0-9_\.]+)\s*(?:-\s*)?(.*)', line)
\* for a line that starts with '@param'
ParamMatch(line) ==
    LET j == SkipWs(line, 7)
        c == Ch(line, j)
        close == IF c = "{" THEN FindFrom(line, "}", j + 1)
                 ELSE IF c = "[" THEN FindFrom(line, "]", j + 1) ELSE 0
        e == IF c \in {"{", "["}
             THEN (IF close >= j + 2 THEN close + 1 ELSE 0)
             ELSE (IF SkipSet(line, WordChars \cup {"."}, j) > j
                   THEN SkipSet(line, WordChars \cup {"."}, j) ELSE 0)
        k == SkipWs(line, e)
        k2 == IF Ch(line, k) = "-" THEN SkipWs(line, k + 1) ELSE k
    IN  IF j > 7 /\ e # 0
        THEN [ok |-> TRUE, name |-> Strip(SubSeq(line, j, e - 1)),
              desc |-> Strip(From(line, k2 - 1))]
        ELSE [ok |-> FALSE, name |-> "", desc |-> ""]

\* re.match(r'@returns?\s+(.*)', line) for a line that starts with '@return'
ReturnsMatch(line) ==
    LET a == IF Ch(line, 8) = "s" THEN 9 ELSE 8
        j == SkipWs(line, a)
    IN  IF j > a THEN [ok |-> TRUE, text |-> Strip(From(line, j - 1))]
        ELSE [ok |-> FALSE, text |-> ""]

NoReturns == [has |-> FALSE, text |-> ""]

RECURSIVE ParseContent(_, _)
ParseContent(content, acc) ==
    IF content = <<>> THEN acc
    ELSE LET line == Head(content)
             next ==
               IF StartsWith(line, "@param")
               THEN LET m == ParamMatch(line)
                    IN  IF m.ok
                        THEN [acc EXCEPT !.params = DictSet(acc.params, m.name, m.desc)]
                        ELSE acc
               ELSE IF StartsWith(line, "@returns") \/ StartsWith(line, "@return")
               THEN LET m == ReturnsMatch(line)
                    IN  IF m.ok
                        THEN [acc EXCEPT !.returns = [has |-> TRUE, text |-> m.text]]
                        ELSE acc
               ELSE IF StartsWith(line, "@") THEN acc
               ELSE [acc EXCEPT !.desc = Append(acc.desc, line)]
         IN  ParseContent(Tail(content), next)

parse_docstring(lines) ==
    LET stripped == [k \in 1..Len(lines) |-> DocContent(lines[k])]
        content == SelectSeq(stripped, LAMBDA l : l # "")
    IN  ParseContent(content, [desc |-> <<>>, params |-> <<>>, returns |-> NoReturns])

-----------------------------------------------------------------------------
(* server/tools/fix_ts_docs.py: the declaration patterns of process_file *)

NoMatch == [ok |-> FALSE, name |-> "", params_str |-> ""]

\* ^\s*export\s+ : the position after it, 0 if the line does not start so
AfterExport(line) ==
    LET a == SkipWs(line, 1)
        b == SkipWs(line, a + 6)
    IN  IF LitAt(line, a, "export") /\ b > a + 6 THEN b ELSE 0

\* kw\s+ at position i (i # 0): the position after it, 0 if it is not there
AfterKeyword(line, i, kw) ==
    LET b == SkipWs(line, i + Len(kw))
    IN  IF i # 0 /\ LitAt(line, i, kw) /\ b > i + Len(kw) THEN b ELSE 0

\* ([a-zA-Z0-9_]+) at position i (i # 0): the position after it, 0 if none
AfterName(line, i) ==
    IF i # 0 /\ SkipWord(line, i) > i THEN SkipWord(line, i) ELSE 0

\* ^\s*export\s+(async\s+)?function\s+([a-zA-Z0-9_]+)\s*\(([^)]*)\)
func_pattern(line) ==
    LET b == AfterExport(line)
        c == IF AfterKeyword(line, b, "async") # 0
             THEN AfterKeyword(line, b, "async") ELSE b
        d == AfterKeyword(line, c, "function")
        e == AfterName(line, d)
        f == SkipWs(line, e)
        close == FindFrom(line, ")", f + 1)
    IN  IF e # 0 /\ Ch(line, f) = "(" /\ close # 0
        THEN [ok |-> TRUE, name |-> SubSeq(line, d, e - 1),
              params_str |-> SubSeq(line, f + 1, close - 1)]
        ELSE NoMatch

\* (\([^)]*\)|[a-zA-Z0-9_]+)\s*=> at position t: group 3, "" if no match
ArrowParams(line, t) ==
    LET close == FindFrom(line, ")", t + 1)
        after == IF Ch(line, t) = "(" THEN (IF close # 0 THEN close + 1 ELSE 0)
                 ELSE AfterName(line, t)
    IN  IF after # 0 /\ LitAt(line, SkipWs(line, after), "=>")
        THEN SubSeq(line, t, after - 1) ELSE ""

\* ^\s*export\s+const\s+([a-zA-Z0-9_]+)\s*=\s*(async\s*)?(\([^)]*\)|[a-zA-Z0-9_]+)\s*=>
arrow_pattern(line) ==
    LET c == AfterKeyword(line, AfterExport(line), "const")
        e == AfterName(line, c)
        f == SkipWs(line, e)
        t == SkipWs(line, f + 1)
        withAsync == IF LitAt(line, t, "async")
                     THEN ArrowParams(line, SkipWs(line, t + 5)) ELSE ""
        g3 == IF withAsync # "" THEN withAsync ELSE ArrowParams(line, t)
    IN  IF e # 0 /\ Ch(line, f) = "=" /\ g3 # ""
        THEN [ok |-> TRUE, name |-> SubSeq(line, c, e - 1), params_str |-> g3]
        ELSE NoMatch

\* ^\s*export\s+const\s+([a-zA-Z0-9_]+)\s*=\s*(memo|forwardRef|dynamic)\(
hoc_pattern(line) ==
    LET c == AfterKeyword(line, AfterExport(line), "const")
        e == AfterName(line, c)
        f == SkipWs(line, e)
        t == SkipWs(line, f + 1)
    IN  IF e # 0 /\ Ch(line, f) = "="
           /\ (LitAt(line, t, "memo(") \/ LitAt(line, t, "forwardRef(")
               \/ LitAt(line, t, "dynamic("))
        THEN [ok |-> TRUE, name |-> SubSeq(line, c, e - 1), params_str |-> ""]
        ELSE NoMatch

\* ^\s*export\s+<kw>\s+([a-zA-Z0-9_]+) for class_pattern, interface_pattern, type_pattern
KeywordPattern(line, kw) ==
    LET c == AfterKeyword(line, AfterExport(line), kw)
        e == AfterName(line, c)
    IN  IF e # 0
        THEN [ok |-> TRUE, name |-> SubSeq(line, c, e - 1), params_str |-> ""]
        ELSE NoMatch

class_pattern(line) == KeywordPattern(line, "class")
interface_pattern(line) == KeywordPattern(line, "interface")
type_pattern(line) == KeywordPattern(line, "type")

\* kind = 'function'; if name[0].isupper(): 'component'; if name.startswith('use'): 'hook'
CallableKind(name) ==
    IF StartsWith(name, "use") THEN "hook"
    ELSE IF Ch(name, 1) \in UpperCase THEN "component"
    ELSE "function"

-----------------------------------------------------------------------------
(* server/tools/fix_ts_docs.py: process_file *)

\* k = j; while k >= 0: if '/**' in lines[k]: doc_start = k; break; k -= 1
RECURSIVE FindDocStart(_, _)
FindDocStart(lines, k) ==
    IF k < 0 THEN -1
    ELSE IF Contains(PyAt(lines, k), "/**") THEN k
    ELSE FindDocStart(lines, k - 1)

\* the backward scan from line j: has_doc, doc_start, doc_end (0-based, -1 when unset)
RECURSIVE FixLocateDoc(_, _)
FixLocateDoc(lines, j) ==
    IF j < 0 THEN [has_doc |-> FALSE, doc_start |-> -1, doc_end |-> -1]
    ELSE LET prev == Strip(PyAt(lines, j))
         IN  IF prev = "" THEN FixLocateDoc(lines, j - 1)
             ELSE IF StartsWith(prev, "@") THEN FixLocateDoc(lines, j - 1)
             ELSE IF EndsWith(prev, "*/")
                  THEN [has_doc |-> TRUE, doc_start |-> FindDocStart(lines, j),
                        doc_end |-> j]
             ELSE [has_doc |-> FALSE, doc_start |-> -1, doc_end |-> -1]

\* while insert_pos > 0 and new_lines[insert_pos-1].strip().startswith('@'): insert_pos -= 1
RECURSIVE InsertPos(_, _)
InsertPos(new_lines, pos) ==
    IF pos > 0 /\ StartsWith(Strip(PyAt(new_lines, pos - 1)), "@")
    THEN InsertPos(new_lines, pos - 1) ELSE pos

\* st is the state of one process_file call: new_lines, modified, out (what it
\* printed) and applied, the record of the doc blocks it inserted or updated
\* (name, kind and params of the declaration, the old block and the new one)
insert_new_doc(st, name, kind, params) ==
    LET doc_full == <<"/**">> \o generate_doc_lines(name, kind, params) \o <<" */">>
        insert_pos == InsertPos(st.new_lines, Len(st.new_lines))
    IN  [st EXCEPT !.new_lines = PySplice(st.new_lines, insert_pos, insert_pos, doc_full),
                   !.modified = TRUE,
                   !.applied = Append(st.applied,
                       [op |-> "insert", name |-> name, kind |-> kind,
                        params |-> params, old |-> <<>>, new |-> doc_full])]

\* existing_params without the keys that hold a brace or are empty
CleanJunk(existing_params) ==
    SelectSeq(existing_params,
              LAMBDA e : ~Contains(e.name, "{") /\ ~Contains(e.name, "}")
                         /\ Len(e.name) >= 1)

MissingReturn(name, kind, existing_returns) ==
    /\ kind \in {"function", "method", "hook", "component"}
    /\ ~existing_returns.has
    /\ \/ kind = "component"
       \/ kind = "function" /\ ~StartsWith(name, "set")
       \/ kind = "hook"

\* the block update_existing_doc builds
MergedDoc(name, kind, params, desc, existing_params, existing_returns) ==
    LET current == [k \in 1..Len(params) |->
                      IF DictHas(existing_params, params[k])
                      THEN " * @param " \o params[k] \o " - "
                               \o DictGet(existing_params, params[k])
                      ELSE " * @param " \o params[k] \o " - "
                               \o get_param_desc(params[k])]
        stale == SelectSeq(existing_params,
                           LAMBDA e : \A k \in 1..Len(params) : params[k] # e.name)
        ret == IF existing_returns.has
               THEN <<" * @returns " \o existing_returns.text>>
               ELSE IF MissingReturn(name, kind, existing_returns)
               THEN (IF kind = "component"
                     THEN <<" * @returns The rendered component.">>
                     ELSE <<" * @returns The result of " \o name \o ".">>)
               ELSE <<>>
    IN  <<"/**">>
        \o [k \in 1..Len(desc) |-> " * " \o desc[k]]
        \o current
        \o [k \in 1..Len(stale) |-> " * @param " \o stale[k].name \o " - " \o stale[k].desc]
        \o ret
        \o <<" */">>

\* number of decorator lines among lines[doc_end+1 .. i-1]
DecoratorsCount(lines, doc_end, i) ==
    Cardinality({k \in (doc_end + 1)..(i - 1) : StartsWith(Strip(PyAt(lines, k)), "@")})

update_existing_doc(st, lines, i, doc, name, kind, params, filepath) ==
    LET parsed == parse_docstring(PySlice(lines, doc.doc_start, doc.doc_end + 1))
        existing_params == CleanJunk(parsed.params)
        missing_params == SelectSeq(params, LAMBDA q : ~DictHas(existing_params, q))
        missing_return == MissingReturn(name, kind, parsed.returns)
        new_doc == MergedDoc(name, kind, params, parsed.desc, existing_params,
                             parsed.returns)
        doc_len == doc.doc_end - doc.doc_start + 1
        end_idx == Len(st.new_lines) - DecoratorsCount(lines, doc.doc_end, i)
        start_idx == end_idx - doc_len
    IN  IF missing_params # <<>> \/ missing_return
        THEN IF \/ start_idx < 0
                \/ end_idx > Len(st.new_lines)
                \/ Strip(PyAt(st.new_lines, start_idx))
                       # Strip(PyAt(lines, doc.doc_start))
             THEN [st EXCEPT !.out = Append(st.out,
                      "Warning: Index mismatch for " \o name \o " in " \o filepath
                          \o ". Skipping update.")]
             ELSE [st EXCEPT
                      !.new_lines = PySplice(st.new_lines, start_idx, end_idx, new_doc),
                      !.modified = TRUE,
                      !.out = Append(st.out,
                          "Updated doc for " \o name \o " in " \o filepath),
                      !.applied = Append(st.applied,
                          [op |-> "update", name |-> name, kind |-> kind,
                           params |-> params,
                           old |-> PySlice(lines, doc.doc_start, doc.doc_end + 1),
                           new |-> new_doc])]
        ELSE st

\* if not has_doc: insert_new_doc(...) else: update_existing_doc(...)
InsertOrUpdate(st, lines, i, doc, name, kind, params, filepath) ==
    IF ~doc.has_doc THEN insert_new_doc(st, name, kind, params)
    ELSE update_existing_doc(st, lines, i, doc, name, kind, params, filepath)

\* params_str of arrow_pattern: if params_str.startswith('('): params_str = params_str[1:-1]
ArrowParamsStr(g3) ==
    IF StartsWith(g3, "(") THEN SubSeq(g3, 2, Len(g3) - 1) ELSE g3

\* one match of line i, m = [ok, name, kind, params, insert_only]: the body of
\* `if match:` for a callable or a class (insert or update) and of
\* `if match and not has_doc:` for an interface or a type (insert only)
ApplyMatch(st, m, lines, i, doc, filepath) ==
    IF ~m.ok THEN st
    ELSE IF m.insert_only
    THEN (IF ~doc.has_doc THEN insert_new_doc(st, m.name, m.kind, m.params) ELSE st)
    ELSE InsertOrUpdate(st, lines, i, doc, m.name, m.kind, m.params, filepath)

RECURSIVE ApplyMatches(_, _, _, _, _, _, _)
ApplyMatches(st, ms, k, lines, i, doc, filepath) ==
    IF k > Len(ms) THEN st
    ELSE ApplyMatches(ApplyMatch(st, ms[k], lines, i, doc, filepath), ms, k + 1,
                      lines, i, doc, filepath)

\* what the patterns find in a line, in the order process_file tries them
FuncMatch(m) ==
    [ok |-> m.ok, name |-> m.name, kind |-> CallableKind(m.name),
     params |-> IF m.ok THEN extract_params(m.params_str) ELSE <<>>,
     insert_only |-> FALSE]

ArrowMatch(m) ==
    [ok |-> m.ok, name |-> m.name, kind |-> CallableKind(m.name),
     params |-> IF m.ok THEN extract_params(ArrowParamsStr(m.params_str)) ELSE <<>>,
     insert_only |-> FALSE]

NameMatch(m, kind, params, insert_only) ==
    [ok |-> m.ok, name |-> m.name, kind |-> kind, params |-> params,
     insert_only |-> insert_only]

LineMatches(line) ==
    << FuncMatch(func_pattern(line)),
       ArrowMatch(arrow_pattern(line)),
       NameMatch(hoc_pattern(line), "component", <<"props">>, FALSE),
       NameMatch(class_pattern(line), "class", <<>>, FALSE),
       NameMatch(interface_pattern(line), "interface", <<>>, TRUE),
       NameMatch(type_pattern(line), "type", <<>>, TRUE) >>

AppendLine(st, line) == [st EXCEPT !.new_lines = Append(st.new_lines, line)]

\* the body of the while loop for line i
ProcessLine(st, lines, i, filepath) ==
    AppendLine(ApplyMatches(st, LineMatches(PyAt(lines, i)), 1, lines, i,
                            FixLocateDoc(lines, i - 1), filepath),
               PyAt(lines, i))

\* while i < len(lines): ...; i += 1   (the test of st.modified only makes the
\* evaluation of st happen before the next iteration)
RECURSIVE ProcessLines(_, _, _, _)
ProcessLines(st, lines, i, filepath) ==
    IF i < Len(lines) /\ st.modified \in BOOLEAN
    THEN ProcessLines(ProcessLine(st, lines, i, filepath), lines, i + 1, filepath)
    ELSE st

\* the loop of process_file over the lines of content
FixScan(filepath, content) ==
    ProcessLines([new_lines |-> <<>>, modified |-> FALSE, out |-> <<>>,
                  applied |-> <<>>], Split(content, "\n"), 0, filepath)

\* a process_file that opens and writes every file it has scanned
WriteAlways(content, st) ==
    [content |-> Join(st.new_lines, "\n"),
     wrote |-> TRUE,
     out |-> st.out,
     applied |-> st.applied]

\* if modified: with open(filepath, 'w') as f: f.write('\n'.join(new_lines))
WriteIfModified(content, st) ==
    [content |-> IF st.modified THEN Join(st.new_lines, "\n") ELSE content,
     wrote |-> st.modified,
     out |-> st.out,
     applied |-> st.applied]

\* process_file: the content after the call, whether the file was opened for writing,
\* what was printed and which doc blocks were inserted or updated
process_file(filepath, content) == WriteIfModified(content, FixScan(filepath, content))

-----------------------------------------------------------------------------
(* server/tools/check_ts_doc.py: check_file *)

\* str(n) for n >= 0
DigitStr(d) ==
    CASE d = 0 -> "0" [] d = 1 -> "1" [] d = 2 -> "2" [] d = 3 -> "3" [] d = 4 -> "4"
      [] d = 5 -> "5" [] d = 6 -> "6" [] d = 7 -> "7" [] d = 8 -> "8" [] d = 9 -> "9"

RECURSIVE ToStr(_)
ToStr(n) == IF n < 10 THEN DigitStr(n) ELSE ToStr(n \div 10) \o DigitStr(n % 10)

\* the first keyword of kws that stands at position i, "" if none does
KeywordAt(line, i, kws) ==
    IF \E n \in 1..Len(kws) : LitAt(line, i, kws[n])
    THEN kws[CHOOSE n \in 1..Len(kws) :
                 /\ LitAt(line, i, kws[n])
                 /\ \A m \in 1..(n - 1) : ~LitAt(line, i, kws[m])]
    ELSE ""

\* ^\s*export\s+(default\s+)?(function|class|interface|type|const|enum)\s+([a-zA-Z0-9_]+)
ts_pattern(line) ==
    LET b == AfterExport(line)
        c == IF AfterKeyword(line, b, "default") # 0
             THEN AfterKeyword(line, b, "default") ELSE b
        kw == KeywordAt(line, c, <<"function", "class", "interface", "type", "const",
                                   "enum">>)
        d == IF kw = "" THEN 0 ELSE AfterKeyword(line, c, kw)
        e == AfterName(line, d)
    IN  IF e # 0
        THEN [ok |-> TRUE, name |-> SubSeq(line, d, e - 1), params_str |-> ""]
        ELSE NoMatch

\* ^\s*export\s+\{(.*)\} : group 1
export_block_pattern(line) ==
    LET b == AfterExport(line)
        closes == {k \in (b + 1)..Len(line) : Ch(line, k) = "}"}
        last_close == CHOOSE k \in closes : \A m \in closes : m <= k
    IN  IF b # 0 /\ Ch(line, b) = "{" /\ closes # {}
        THEN [ok |-> TRUE, group1 |-> SubSeq(line, b + 1, last_close - 1)]
        ELSE [ok |-> FALSE, group1 |-> ""]

\* the backward scan for a docstring above line j + 1 (decorators and // comments skipped)
RECURSIVE TsHasDoc(_, _)
TsHasDoc(lines, j) ==
    IF j < 0 THEN FALSE
    ELSE LET prev == Strip(PyAt(lines, j))
         IN  IF prev = "" THEN TsHasDoc(lines, j - 1)
             ELSE IF StartsWith(prev, "@") \/ StartsWith(prev, "//")
                  THEN TsHasDoc(lines, j - 1)
             ELSE EndsWith(prev, "*/")

\* \b at the boundary between positions i - 1 and i of line
WordBoundary(line, i) == (Ch(line, i - 1) \in WordChars) # (Ch(line, i) \in WordChars)

\* ^\s*(const|function|class|interface|type|enum)\s+ <sym> \b
def_pattern(line, sym) ==
    LET a == SkipWs(line, 1)
        kw == KeywordAt(line, a, <<"const", "function", "class", "interface", "type",
                                   "enum">>)
        d == IF kw = "" THEN 0 ELSE AfterKeyword(line, a, kw)
    IN  /\ d # 0
        /\ (sym = "" \/ LitAt(line, d, sym))
        /\ WordBoundary(line, d + Len(sym))

\* "foo as bar" -> "foo"
LocalName(sym0) ==
    LET s1 == Strip(sym0)
    IN  IF Contains(s1, " as ") THEN Strip(BeforeFirst(s1, " as ")) ELSE s1

\* the diagnostics of one symbol of the export block of line i
BlockSymbolMissing(lines, i, sym) ==
    LET defs == {k \in 0..(Len(lines) - 1) : def_pattern(PyAt(lines, k), sym)}
        k == CHOOSE n \in defs : \A m \in defs : n <= m
    IN  IF defs # {} /\ ~TsHasDoc(lines, k - 1)
        THEN <<[line |-> i + 1,
                name |-> sym \o " (via export {} at line " \o ToStr(i + 1) \o ")"]>>
        ELSE <<>>

RECURSIVE BlockMissing(_, _, _)
BlockMissing(lines, i, symbols) ==
    IF symbols = <<>> THEN <<>>
    ELSE BlockSymbolMissing(lines, i, LocalName(Head(symbols)))
             \o BlockMissing(lines, i, Tail(symbols))

\* the diagnostics line i adds to missing_docs
TsLineMissing(lines, i) ==
    LET line == PyAt(lines, i)
        m == ts_pattern(line)
        bm == export_block_pattern(line)
    IN  (IF m.ok /\ ~TsHasDoc(lines, i - 1)
         THEN <<[line |-> i + 1, name |-> m.name]>> ELSE <<>>)
        \o (IF bm.ok THEN BlockMissing(lines, i, Split(bm.group1, ",")) ELSE <<>>)

RECURSIVE TsMissingFrom(_, _)
TsMissingFrom(lines, i) ==
    IF i >= Len(lines) THEN <<>>
    ELSE TsLineMissing(lines, i) \o TsMissingFrom(lines, i + 1)

\* check_file of check_ts_doc.py: the list of (line_number, symbol_name)
ts_check_file(content) == TsMissingFrom(Split(content, "\n"), 0)

\* the line main prints for one diagnostic
ts_message(filepath, d) ==
    filepath \o ":" \o ToStr(d.line) \o ": missing doc for exported symbol " \o d.name

-----------------------------------------------------------------------------
(* ui/tools/check_jsdoc.py: has_jsdoc and check_file; content indices are 0-based *)

\* content[i]
CharAt(content, i) == Ch(content, i + 1)

\* while i >= 0 and content[i].isspace(): i -= 1
RECURSIVE SkipSpaceBack(_, _)
SkipSpaceBack(content, i) ==
    IF i >= 0 /\ CharAt(content, i) \in WhiteSpace
    THEN SkipSpaceBack(content, i - 1) ELSE i

has_jsdoc(content, start_index) ==
    LET i == SkipSpaceBack(content, start_index - 1)
        \* the positions j <= i - 2 that hold '/*'
        opens == {j \in 0..(i - 2) :
                     CharAt(content, j) = "/" /\ CharAt(content, j + 1) = "*"}
        j == CHOOSE n \in opens : \A m \in opens : m <= n
    IN  IF i < 1 THEN FALSE
        ELSE IF CharAt(content, i) = "/" /\ CharAt(content, i - 1) = "*"
        THEN opens # {} /\ CharAt(content, j + 2) = "*"
        ELSE FALSE

NoJsMatch == [ok |-> FALSE, name |-> "", end |-> 0]

\* <kw>\s+ at the 1-based position i, optional: the position after it, i if absent
AfterOptional(s, i, kw) ==
    IF i # 0 /\ AfterKeyword(s, i, kw) # 0 THEN AfterKeyword(s, i, kw) ELSE i

\* export\s+ at the 1-based position p: the position after it, 0 if absent
ExportAt(s, p) == AfterKeyword(s, p, "export")

\* export\s+(?:default\s+)?(?:abstract\s+)?(class|interface|type|enum)\s+(\w+)
js_pattern1(s, p) ==
    LET c == AfterOptional(s, AfterOptional(s, ExportAt(s, p), "default"), "abstract")
        kw == KeywordAt(s, c, <<"class", "interface", "type", "enum">>)
        d == IF kw = "" THEN 0 ELSE AfterKeyword(s, c, kw)
        e == AfterName(s, d)
    IN  IF e # 0 THEN [ok |-> TRUE, name |-> SubSeq(s, d, e - 1), end |-> e]
        ELSE NoJsMatch

\* export\s+(?:default\s+)?(?:async\s+)?function\s+(\w+)
js_pattern2(s, p) ==
    LET c == AfterOptional(s, AfterOptional(s, ExportAt(s, p), "default"), "async")
        d == AfterKeyword(s, c, "function")
        e == AfterName(s, d)
    IN  IF e # 0 THEN [ok |-> TRUE, name |-> SubSeq(s, d, e - 1), end |-> e]
        ELSE NoJsMatch

\* export\s+(?:const|let|var)\s+(\w+)\s*=
js_pattern3(s, p) ==
    LET b == ExportAt(s, p)
        kw == KeywordAt(s, b, <<"const", "let", "var">>)
        d == IF kw = "" THEN 0 ELSE AfterKeyword(s, b, kw)
        e == AfterName(s, d)
        f == SkipWs(s, e)
    IN  IF e # 0 /\ Ch(s, f) = "="
        THEN [ok |-> TRUE, name |-> SubSeq(s, d, e - 1), end |-> f + 1]
        ELSE NoJsMatch

js_pattern(n, s, p) ==
    IF n = 1 THEN js_pattern1(s, p)
    ELSE IF n = 2 THEN js_pattern2(s, p)
    ELSE js_pattern3(s, p)

\* content.count('\n', 0, start_index) + 1
LineNum(content, start_index) ==
    Cardinality({k \in 1..start_index : Ch(content, k) = "\n"}) + 1

\* the string check_file appends to missing
js_message(filepath, line_num, name) ==
    filepath \o ":" \o ToStr(line_num) \o ": missing doc for exported symbol '"
        \o name \o "'"

\* pattern.finditer(content) from the 1-based position p on: the matches, left to
\* right and not overlapping, each reported unless has_jsdoc
RECURSIVE JsFinditer(_, _, _, _)
JsFinditer(n, filepath, content, p) ==
    LET starts == {k \in p..Len(content) : js_pattern(n, content, k).ok}
        k == CHOOSE a \in starts : \A b \in starts : a <= b
        m == js_pattern(n, content, k)
    IN  IF starts = {} THEN <<>>
        ELSE (IF ~has_jsdoc(content, k - 1)
              THEN <<[line |-> LineNum(content, k - 1), name |-> m.name,
                      text |-> js_message(filepath, LineNum(content, k - 1), m.name)]>>
              ELSE <<>>)
             \o JsFinditer(n, filepath, content, m.end)

\* check_file of check_jsdoc.py for a readable file: the strings appended to missing
\* (text), each with the line number and the name it was built from
js_check_file(filepath, content) ==
    JsFinditer(1, filepath, content, 1) \o JsFinditer(2, filepath, content, 1)
        \o JsFinditer(3, filepath, content, 1)

-----------------------------------------------------------------------------
(* server/scripts/check_ts_docs.py: check_ts_docs for one file *)

\* ^export\s+(function|const|class|type|interface|enum)\s+([a-zA-Z0-9_]+)
exported_pattern(line) ==
    LET b == ExportAt(line, 1)
        kw == KeywordAt(line, b, <<"function", "const", "class", "type", "interface",
                                   "enum">>)
        d == IF kw = "" THEN 0 ELSE AfterKeyword(line, b, kw)
        e == AfterName(line, d)
    IN  IF e # 0 THEN [ok |-> TRUE, type |-> kw, name |-> SubSeq(line, d, e - 1)]
        ELSE [ok |-> FALSE, type |-> "", name |-> ""]

\* ^export\s+default\s+(function|class)\s+([a-zA-Z0-9_]*)
exported_default_pattern(line) ==
    LET c == AfterKeyword(line, ExportAt(line, 1), "default")
        kw == KeywordAt(line, c, <<"function", "class">>)
        d == IF kw = "" THEN 0 ELSE AfterKeyword(line, c, kw)
    IN  IF d # 0
        THEN [ok |-> TRUE, type |-> kw, name |-> SubSeq(line, d, SkipWord(line, d) - 1)]
        ELSE [ok |-> FALSE, type |-> "", name |-> ""]

\* symbol_type and symbol_name of a stripped line ("" when it is no export)
ScriptSymbol(line) ==
    LET m == exported_pattern(line)
        md == exported_default_pattern(line)
    IN  IF m.ok THEN [type |-> m.type, name |-> m.name]
        ELSE IF md.ok
        THEN [type |-> md.type, name |-> IF md.name = "" THEN "default" ELSE md.name]
        ELSE [type |-> "", name |-> ""]

\* the backward scan: only // lines may stand between the declaration and a '*/'
RECURSIVE ScriptHasDoc(_, _)
ScriptHasDoc(lines, j) ==
    IF j < 0 THEN FALSE
    ELSE LET prev_line == Strip(PyAt(lines, j))
         IN  IF EndsWith(prev_line, "*/") THEN TRUE
             ELSE IF prev_line = "" THEN FALSE
             ELSE IF StartsWith(prev_line, "//") THEN ScriptHasDoc(lines, j - 1)
             ELSE FALSE

ScriptLineMissing(filepath, lines, i) ==
    LET sym == ScriptSymbol(Strip(PyAt(lines, i)))
    IN  IF sym.name # "" /\ ~ScriptHasDoc(lines, i - 1)
        THEN <<[line |-> i + 1, name |-> sym.name,
                text |-> filepath \o ":" \o ToStr(i + 1) \o " " \o sym.type \o " "
                             \o sym.name]>>
        ELSE <<>>

RECURSIVE ScriptMissingFrom(_, _, _)
ScriptMissingFrom(filepath, lines, i) ==
    IF i >= Len(lines) THEN <<>>
    ELSE ScriptLineMissing(filepath, lines, i) \o ScriptMissingFrom(filepath, lines, i + 1)

\* f.readlines(): the lines of the content (a final newline ends the last line);
\* every use strips the line, so the line ends are left out
ReadLines(content) ==
    IF content = "" THEN <<>>
    ELSE IF EndsWith(content, "\n") THEN Split(Upto(content, Len(content) - 1), "\n")
    ELSE Split(content, "\n")

\* check_ts_docs for one file: the strings appended to missing_docs (text), each with
\* the line number and the name it was built from
script_check_file(filepath, content) == ScriptMissingFrom(filepath, ReadLines(content), 0)

-----------------------------------------------------------------------------
(* Bounds and the source files the tools are run on *)

MaxRuns == 2          \* runs of a tool in one history
MaxBlank == 1         \* blank lines between a doc block and what follows it
MaxDecorators == 2    \* decorator lines above a declaration
MaxArgs == 2          \* arguments in a parameter list given to extract_params

\* a file of the tree: its path and its text
File(path, content) == [path |-> path, content |-> content, readable |-> TRUE]

\* a file that open() or read() raises on (no permission, undecodable bytes)
Unreadable(path) == [path |-> path, content |-> "", readable |-> FALSE]

Repeat(line, n) == [k \in 1..n |-> line]

\* what may stand between a comment block and a declaration
Gaps == {Repeat("", nb) \o Repeat("@Injectable()", nd) :
            nb \in 0..MaxBlank, nd \in 0..MaxDecorators}

\* exported declarations the fixer is run on
FixDecls == {
    [line |-> "export function load(a, b, c) {}", name |-> "load", kind |-> "function"],
    [line |-> "export function load() {}", name |-> "load", kind |-> "function"],
    [line |-> "export function Panel(a) {}", name |-> "Panel", kind |-> "component"],
    [line |-> "export async function useData(a) {}", name |-> "useData", kind |-> "hook"],
    [line |-> "export function setValue(v) {}", name |-> "setValue", kind |-> "function"],
    [line |-> "export function watch(cb: () => void, x: number) {}", name |-> "watch",
     kind |-> "function"],
    [line |-> "export function scan(\n  a,\n  b\n) {}", name |-> "scan",
     kind |-> "function"],
    [line |-> "export const pick = (a, b, c) => a", name |-> "pick", kind |-> "function"],
    [line |-> "export const Card = memo(() => null)", name |-> "Card", kind |-> "component"],
    [line |-> "export class Store {}", name |-> "Store", kind |-> "class"],
    [line |-> "export interface Opts {}", name |-> "Opts", kind |-> "interface"],
    [line |-> "export type Id = string", name |-> "Id", kind |-> "type"] }

\* comment blocks found above a declaration d: none, authored doc blocks, the block
\* the fixer itself writes for d without parameters, an ordinary comment
FixBlocks(d) == {
    <<>>,
    <<"/**", " * Loads the data.", " * @param a - first", " * @param b - second", " */">>,
    <<"/**", " * Loads the data.", " * @param {string} a - first",
      " * @param {string} b - second", " */">>,
    <<"/**", " * Loads the data.", " * @param {a, b} - both", " * @param old - gone",
      " * @returns The data.", " */">>,
    <<"/** Loads the data. */">>,
    <<"/**", " * Loads the data.", " * @deprecated Use fetch.", " * @param a - first",
      " */">>,
    <<"/**">> \o generate_doc_lines(d.name, d.kind, <<>>) \o <<" */">>,
    <<"/* plain */">> }

\* what may stand before the documented declaration in the file
FixLeads == {<<>>, <<"export interface Head {}", "">>}

\* a documented declaration with a lint-suppression comment between the doc block
\* and the declaration
LintLine == "// eslint-disable-next-line no-console"

LintContents ==
    {Join(block \o <<LintLine, d>>, "\n") :
        block \in {<<"/** Documented. */">>,
                   <<"/**", " * Documented.", " * @returns The data.", " */">>},
        d \in {"export class Store {}", "export function load() {}"}}

FixContents ==
    LintContents \cup
    UNION {{Join(lead \o block \o gap \o <<d.line>>, "\n") :
               lead \in FixLeads, block \in FixBlocks(d), gap \in Gaps} : d \in FixDecls}

\* the trees fix mode is run on: one source file, or one file fix mode skips or
\* cannot read followed by a source file
FixTrees ==
    {<<File("ui/src/a.ts", c)>> : c \in FixContents}
    \cup {<<File(q, "export class Store {}"), File("ui/src/b.tsx", c)>> :
             q \in {"ui/src/node_modules/m/index.ts", "ui/src/types.d.ts",
                    "ui/src/README.md"},
             c \in {"export class Store {}", "/** Doc. */\nexport class Store {}"}}
    \cup {<<Unreadable(q), File("ui/src/b.tsx", c)>> :
             q \in {"ui/src/a.ts", "ui/src/types.d.ts"},
             c \in {"export class Store {}", "/** Doc. */\nexport class Store {}"}}

\* exported declarations the checkers are run on
CheckDecls == {
    "export function load() {}",
    "export async function fetchAll() {}",
    "export default function main() {}",
    "export class Store {}",
    "export abstract class Base {}",
    "export interface Opts {}",
    "export type Id = string",
    "export enum Color { Red }",
    "export const limit = 3" }

\* what may stand above them
CheckBlocks == {
    <<>>,
    <<"/**", " * Documented.", " */">>,
    <<"/** Documented. */">>,
    <<"/* plain */">>,
    <<"const before = 1;">> }

\* files with a named export block over local declarations
LocalDecls(n) == {"function " \o n \o "() {}", "async function " \o n \o "() {}",
                  "const " \o n \o " = 1", "class " \o n \o " {}",
                  "enum " \o n \o " { X }"}

ExportBlocks == {
    "export { alpha, beta as gamma }",
    "export { beta as gamma, alpha };",
    "export {alpha}",
    "export { alpha, beta as gamma } from './m'",
    "export { alpha, alpha as gamma }",
    "export {\n  alpha,\n  beta as gamma\n}" }

BlockContents ==
    {Join(da \o <<a>> \o db \o <<b, e>>, "\n") :
        da \in {<<>>, <<"/** Documented. */">>}, a \in {"function alpha() {}"},
        db \in {<<>>, <<"/** Documented. */">>}, b \in LocalDecls("beta"),
        e \in ExportBlocks}

CheckContents ==
    {Join(block \o gap \o <<d>>, "\n") : block \in CheckBlocks, gap \in Gaps, d \in CheckDecls}
    \cup BlockContents \cup LintContents

\* the trees check mode is run on: one source file, a source file followed by a
\* second file that one or another checker skips, or a tree with an unreadable file
CheckTrees ==
    {<<File("ui/src/a.ts", c)>> : c \in CheckContents}
    \cup {<<File("ui/src/a.tsx", c), File(q, c2)>> :
             c \in {"export class Store {}", "/** Doc. */\nexport class Store {}"},
             q \in {"ui/src/b.ts", "ui/src/b.test.ts", "ui/src/b.d.ts",
                    "ui/src/node_modules/m/index.ts", "ui/src/README.md"},
             c2 \in {"export type Id = string", "/** Doc. */\nexport type Id = string"}}
    \cup {<<Unreadable(q), File("ui/src/b.ts", c2)>> :
             q \in {"ui/src/a.ts", "ui/src/a.test.ts", "ui/src/README.md"},
             c2 \in {"export type Id = string", "/** Doc. */\nexport type Id = string"}}
    \cup {<<File("ui/src/a.ts", "export type Id = string"), Unreadable("ui/src/b.ts")>>}

\* the trees fix mode and then check mode are run on: one file with a declaration
\* of a form check mode recognises, or an unreadable file
FixCheckContents == CheckDecls \cup BlockContents \cup {d.line : d \in FixDecls}

FixCheckTrees ==
    {<<File("ui/src/a.ts", c)>> : c \in FixCheckContents}
    \cup {<<Unreadable("ui/src/a.ts")>>}

\* the arguments of the parameter lists given to extract_params
ArgTexts == {
    "a", "b: string", "c = 1", "...rest", "opts?: Map<string, number>",
    "cb: () => void", "{ id, name: displayName, onClick }", "{ a = 1, b }: Props",
    "{ title: label }: Props", "" }

RECURSIVE ArgLists(_)
ArgLists(n) ==
    IF n = 0 THEN {<<>>}
    ELSE ArgLists(n - 1)
         \cup {Append(l, a) : l \in {x \in ArgLists(n - 1) : Len(x) = n - 1}, a \in ArgTexts}

ParamTexts == {Join(l, ", ") : l \in ArgLists(MaxArgs)}

-----------------------------------------------------------------------------
(* The drivers: main of each tool as a walk over the tree, one file per step *)

\* the directory part and the file name of a path
LastSlash(path) ==
    LET S == {k \in 1..Len(path) : Ch(path, k) = "/"}
    IN  IF S = {} THEN 0 ELSE CHOOSE k \in S : \A m \in S : m <= k

DirPath(path) == Upto(path, LastSlash(path) - 1)
FileName(path) == From(path, LastSlash(path))

IsTsFile(filename) == EndsWith(filename, ".ts") \/ EndsWith(filename, ".tsx")

\* check_ts_doc.main: node_modules directories are pruned from the walk; .d.ts and
\* test files are skipped
TsEligible(path) ==
    /\ \A k \in 1..Len(Split(DirPath(path), "/")) :
           Split(DirPath(path), "/")[k] # "node_modules"
    /\ IsTsFile(FileName(path))
    /\ ~(EndsWith(FileName(path), ".d.ts") \/ EndsWith(FileName(path), ".test.ts")
         \/ EndsWith(FileName(path), ".test.tsx"))

\* check_jsdoc.main: every .ts and .tsx file
JsEligible(path) == IsTsFile(FileName(path))

\* check_ts_docs: every .ts and .tsx file but the test files
ScriptEligible(path) ==
    /\ IsTsFile(FileName(path))
    /\ ~(EndsWith(FileName(path), ".test.ts") \/ EndsWith(FileName(path), ".test.tsx"))

\* fix_ts_docs.main
FixEligible(path) ==
    /\ IsTsFile(FileName(path))
    /\ ~Contains(DirPath(path), "node_modules")
    /\ ~EndsWith(FileName(path), ".d.ts")

\* the diagnostics of one file, each with the path of its file
WithPath(path, ds) == [k \in 1..Len(ds) |-> [path |-> path] @@ ds[k]]

Texts(ds) == [k \in 1..Len(ds) |-> ds[k].text]

Idle == pc \in {"idle", "done"}

\* a program is started: python <tool>
Start(t, banner) ==
    /\ Idle
    /\ runs < MaxRuns
    /\ tool' = t
    /\ pc' = "walk"
    /\ idx' = 0
    /\ missing' = <<>>
    /\ has_errors' = FALSE
    /\ stdout' = banner
    /\ exit_code' = -1
    /\ applied' = <<>>
    /\ opened_w' = <<>>
    /\ before' = fs
    /\ runs' = runs + 1
    /\ UNCHANGED <<fs, params_str, params_out, wbuf, client, shard>>

Walking(t) == tool = t /\ pc = "walk" /\ idx < Len(fs)

\* open() or read() raises on the file the walk is at
ReadFails == ~fs[idx + 1].readable

\* an exception nothing catches ends the program: traceback on stderr, exit status 1
Abort ==
    /\ pc' = "aborted"
    /\ exit_code' = 1
    /\ UNCHANGED <<fs, tool, idx, missing, has_errors, stdout, applied, opened_w,
                   before, runs, params_str, params_out, wbuf, client, shard>>
WalkDone(t) == tool = t /\ pc = "walk" /\ idx = Len(fs)

(* server/tools/check_ts_doc.py: main *)
StartTs == Start("check_ts_doc", <<>>)

TsFound(path, ds) ==
    [k \in 1..Len(ds) |-> [path |-> path, line |-> ds[k].line, name |-> ds[k].name,
                           text |-> ts_message(path, ds[k])]]

TsReport(found) ==
    /\ missing' = missing \o found
    /\ has_errors' = (has_errors \/ found # <<>>)
    /\ stdout' = stdout \o Texts(found)

TsVisit ==
    /\ Walking("check_ts_doc")
    /\ ~(TsEligible(fs[idx + 1].path) /\ ReadFails)
    /\ TsReport(IF TsEligible(fs[idx + 1].path)
                THEN TsFound(fs[idx + 1].path, ts_check_file(fs[idx + 1].content))
                ELSE <<>>)
    /\ idx' = idx + 1
    /\ UNCHANGED <<fs, tool, pc, exit_code, applied, opened_w, before, runs,
                   params_str, params_out, wbuf, client, shard>>

TsExit ==
    /\ WalkDone("check_ts_doc")
    /\ exit_code' = IF has_errors THEN 1 ELSE 0
    /\ pc' = "done"
    /\ UNCHANGED <<fs, tool, idx, missing, has_errors, stdout, applied, opened_w,
                   before, runs, params_str, params_out, wbuf, client, shard>>

\* check_file opens the file outside any try
TsAbort ==
    /\ Walking("check_ts_doc")
    /\ TsEligible(fs[idx + 1].path) /\ ReadFails
    /\ Abort

(* ui/tools/check_jsdoc.py: main *)
StartJs == Start("check_jsdoc", <<>>)

\* check_file: the read error is caught, printed, and the file yields no diagnostic
JsReadError(filepath) ==
    "Error reading " \o filepath \o ": [Errno 13] Permission denied: '" \o filepath \o "'"

JsVisit ==
    /\ Walking("check_jsdoc")
    /\ LET f == fs[idx + 1]
       IN  IF JsEligible(f.path) /\ ReadFails
           THEN missing' = missing /\ stdout' = Append(stdout, JsReadError(f.path))
           ELSE /\ missing' = missing \o
                       (IF JsEligible(f.path)
                        THEN WithPath(f.path, js_check_file(f.path, f.content))
                        ELSE <<>>)
                /\ stdout' = stdout
    /\ idx' = idx + 1
    /\ UNCHANGED <<fs, tool, pc, has_errors, exit_code, applied, opened_w,
                   before, runs, params_str, params_out, wbuf, client, shard>>

JsExit ==
    /\ WalkDone("check_jsdoc")
    /\ stdout' = stdout \o Texts(missing)
    /\ exit_code' = IF missing # <<>> THEN 1 ELSE 0
    /\ pc' = "done"
    /\ UNCHANGED <<fs, tool, idx, missing, has_errors, applied, opened_w, before,
                   runs, params_str, params_out, wbuf, client, shard>>

(* server/scripts/check_ts_docs.py: __main__ *)
StartScript == Start("check_ts_docs", <<"Scanning ui/src for missing TS docs...">>)

ScriptVisit ==
    /\ Walking("check_ts_docs")
    /\ ~(ScriptEligible(fs[idx + 1].path) /\ ReadFails)
    /\ LET f == fs[idx + 1]
       IN  missing' = missing \o (IF ScriptEligible(f.path)
                                  THEN WithPath(f.path,
                                                script_check_file(f.path, f.content))
                                  ELSE <<>>)
    /\ idx' = idx + 1
    /\ UNCHANGED <<fs, tool, pc, has_errors, stdout, exit_code, applied, opened_w,
                   before, runs, params_str, params_out, wbuf, client, shard>>

\* check_ts_docs opens the file outside any try
ScriptAbort ==
    /\ Walking("check_ts_docs")
    /\ ScriptEligible(fs[idx + 1].path) /\ ReadFails
    /\ Abort

\* the report; the script returns without sys.exit ("Don't exit 1 yet, just report")
ScriptExit ==
    /\ WalkDone("check_ts_docs")
    /\ stdout' = stdout \o (IF missing # <<>>
                            THEN <<"Found missing docs:">> \o Texts(missing)
                            ELSE <<"No missing docs found!">>)
    /\ exit_code' = 0
    /\ pc' = "done"
    /\ UNCHANGED <<fs, tool, idx, missing, has_errors, applied, opened_w, before,
                   runs, params_str, params_out, wbuf, client, shard>>

(* server/tools/fix_ts_docs.py: main *)
StartFix == Start("fix_ts_docs", <<>>)

\* process_file up to `with open(filepath, 'w') as f: f.write(...)`: opening the
\* file for writing truncates it, and the text given to f.write stays in the buffer
\* of f (the files are shorter than the buffer) until f is closed
FixApply(path, r) ==
    /\ stdout' = stdout \o r.out
    /\ applied' = applied \o WithPath(path, r.applied)
    /\ IF r.wrote
       THEN /\ opened_w' = Append(opened_w, path)
            /\ fs' = [fs EXCEPT ![idx + 1].content = ""]
            /\ wbuf' = r.content
            /\ pc' = "write"
            /\ idx' = idx
       ELSE /\ idx' = idx + 1
            /\ UNCHANGED <<fs, opened_w, wbuf, pc>>

FixVisit ==
    /\ Walking("fix_ts_docs")
    /\ ~(FixEligible(fs[idx + 1].path) /\ ReadFails)
    /\ IF FixEligible(fs[idx + 1].path)
       THEN FixApply(fs[idx + 1].path,
                     process_file(fs[idx + 1].path, fs[idx + 1].content))
       ELSE /\ idx' = idx + 1
            /\ UNCHANGED <<fs, opened_w, stdout, applied, wbuf, pc>>
    /\ UNCHANGED <<tool, missing, has_errors, exit_code, before, runs,
                   params_str, params_out, client, shard>>

\* the end of the with block: f is closed, the buffer reaches the file, and
\* process_file returns to the walk
FixWrite ==
    /\ tool = "fix_ts_docs" /\ pc = "write"
    /\ fs' = [fs EXCEPT ![idx + 1].content = wbuf]
    /\ wbuf' = ""
    /\ pc' = "walk"
    /\ idx' = idx + 1
    /\ UNCHANGED <<tool, missing, has_errors, stdout, exit_code, applied, opened_w,
                   before, runs, params_str, params_out, client, shard>>

\* the flush raises (no space left on the device): the exception leaves main
FixWriteFails ==
    /\ tool = "fix_ts_docs" /\ pc = "write"
    /\ wbuf' = ""
    /\ pc' = "aborted"
    /\ exit_code' = 1
    /\ UNCHANGED <<fs, tool, idx, missing, has_errors, stdout, applied, opened_w,
                   before, runs, params_str, params_out, client, shard>>

\* the process is stopped from outside (SIGKILL) during the walk or during a write;
\* what is in the buffer of an open file is lost
FixKill ==
    /\ tool = "fix_ts_docs" /\ pc \in {"walk", "write"}
    /\ wbuf' = ""
    /\ pc' = "killed"
    /\ exit_code' = 137
    /\ UNCHANGED <<fs, tool, idx, missing, has_errors, stdout, applied, opened_w,
                   before, runs, params_str, params_out, client, shard>>

\* process_file opens the file outside any try
FixAbort ==
    /\ Walking("fix_ts_docs")
    /\ FixEligible(fs[idx + 1].path) /\ ReadFails
    /\ Abort

FixExit ==
    /\ WalkDone("fix_ts_docs")
    /\ exit_code' = 0
    /\ pc' = "done"
    /\ UNCHANGED <<fs, tool, idx, missing, has_errors, stdout, applied, opened_w,
                   before, runs, params_str, params_out, wbuf, client, shard>>

(* check mode started on the tree a finished fix run has left *)
FixFinished == tool = "fix_ts_docs" /\ pc = "done"

TsAfterFix == FixFinished /\ StartTs
JsAfterFix == FixFinished /\ StartJs

(* extract_params called on params_str *)
ExtractParams ==
    /\ tool = "extract_params"
    /\ pc = "idle"
    /\ params_out' = extract_params(params_str)
    /\ pc' = "done"
    /\ UNCHANGED <<fs, tool, idx, missing, has_errors, stdout, exit_code, applied,
                   opened_w, before, runs, params_str, wbuf, client, shard>>

-----------------------------------------------------------------------------
(* sdk/python/mcpany/client.py: the Client object and the session behind it *)

MaxContent == 2       \* items in the content list of a tool result
MaxLeaked == 2        \* contexts left open by exit stacks that were dropped

\* Client.__init__
NewClient(url_or_command) ==
    [url_or_command |-> url_or_command,
     session |-> "None",        \* self._session: "None" or "ClientSession"
     initialized |-> FALSE,     \* initialize() of that session has returned
     has_stack |-> FALSE,       \* self._exit_stack is not None
     entered |-> <<>>,          \* the contexts the exit stack has entered
     leaked |-> 0,              \* contexts of exit stacks dropped without aclose
     last |-> [op |-> "init", called |-> FALSE, reply |-> "none", raised |-> "",
               returned |-> "", text |-> "", content |-> <<>>]]

Urls == {"http://localhost:8080/sse", "mcpany"}

\* the exception classes: the ones of mcpany/exceptions.py and the ones a session
\* raises; asyncio.CancelledError and KeyboardInterrupt derive from BaseException
\* and not from Exception
IsException(exc) == exc \notin {"CancelledError", "KeyboardInterrupt"}

SessionErrors == {"McpError", "RuntimeError", "CancelledError", "KeyboardInterrupt"}

\* the items of a content list, and the content lists
ContentItems ==
    {[type |-> "text", text |-> "success"], [type |-> "text", text |-> ""],
     [type |-> "image", text |-> ""]}

RECURSIVE ContentLists(_)
ContentLists(n) ==
    IF n = 0 THEN {<<>>}
    ELSE ContentLists(n - 1)
         \cup {Append(l, i) : l \in {x \in ContentLists(n - 1) : Len(x) = n - 1},
                               i \in ContentItems}

\* what `await self._session.call_tool(name, arguments)` does: it returns a
\* CallToolResult or raises
CallReplies ==
    {[kind |-> "result", isError |-> e, content |-> c, exc |-> ""] :
        e \in BOOLEAN, c \in ContentLists(MaxContent)}
    \cup {[kind |-> "raise", isError |-> FALSE, content |-> <<>>, exc |-> x] :
              x \in SessionErrors}

Raises(op, called, reply, exc) ==
    [op |-> op, called |-> called, reply |-> reply, raised |-> exc, returned |-> "",
     text |-> "", content |-> <<>>]

ReturnsText(op, reply, text) ==
    [op |-> op, called |-> TRUE, reply |-> reply, raised |-> "", returned |-> "text",
     text |-> text, content |-> <<>>]

ReturnsList(op, reply, content) ==
    [op |-> op, called |-> TRUE, reply |-> reply, raised |-> "", returned |-> "list",
     text |-> "", content |-> content]

ReturnsNone(op) ==
    [op |-> op, called |-> FALSE, reply |-> "none", raised |-> "", returned |-> "None",
     text |-> "", content |-> <<>>]

\* Client.call_tool without the unwrapping of a single text item
call_tool_list(c, reply) ==
    IF c.session = "None" THEN Raises("call_tool", FALSE, "none", "ConnectionError")
    ELSE IF reply.kind = "raise"
    THEN Raises("call_tool", TRUE, reply,
                IF IsException(reply.exc) THEN "ToolExecutionError" ELSE reply.exc)
    ELSE IF reply.isError THEN Raises("call_tool", TRUE, reply, "ToolExecutionError")
    ELSE ReturnsList("call_tool", reply, reply.content)

\* Client.call_tool: the outcome of one call, for the reply of the session
call_tool(c, reply) ==
    IF c.session = "None" THEN Raises("call_tool", FALSE, "none", "ConnectionError")
    ELSE IF reply.kind = "raise"
    THEN Raises("call_tool", TRUE, reply,
                IF IsException(reply.exc) THEN "ToolExecutionError" ELSE reply.exc)
    ELSE IF reply.isError THEN Raises("call_tool", TRUE, reply, "ToolExecutionError")
    ELSE IF Len(reply.content) = 1 /\ reply.content[1].type = "text"
    THEN ReturnsText("call_tool", reply, reply.content[1].text)
    ELSE ReturnsList("call_tool", reply, reply.content)

\* what `await self._session.list_tools()` does
ListReplies ==
    {[kind |-> "result", isError |-> FALSE, content |-> t, exc |-> ""] :
        t \in {<<>>, <<[type |-> "tool", text |-> "echo"]>>}}
    \cup {[kind |-> "raise", isError |-> FALSE, content |-> <<>>, exc |-> x] :
              x \in SessionErrors}

\* Client.list_tools: the exception of the session is not caught
list_tools(c, reply) ==
    IF c.session = "None" THEN Raises("list_tools", FALSE, "none", "ConnectionError")
    ELSE IF reply.kind = "raise" THEN Raises("list_tools", TRUE, reply, reply.exc)
    ELSE ReturnsList("list_tools", reply, reply.content)

\* Client.close
close(c) ==
    IF c.has_stack
    THEN [c EXCEPT !.has_stack = FALSE, !.entered = <<>>, !.session = "None",
                   !.initialized = FALSE]
    ELSE c

\* Client.connect picks the transport
Transport(c) ==
    IF StartsWith(c.url_or_command, "http") THEN "sse_client" ELSE "stdio_client"

\* _connect_sse and _connect_stdio: a new exit stack replaces the one the client
\* held (whose contexts stay open), then the transport context is entered (step 1),
\* the ClientSession context is entered and assigned (step 2) and initialized
\* (step 3). failed_at is the step that raises exc, 0 when none does. An Exception
\* closes the client and becomes ConnectionError, any other exception passes.
Connecting(c) ==
    [c EXCEPT !.has_stack = TRUE, !.entered = <<>>,
              !.leaked = c.leaked + Len(c.entered)]

ConnectReached(c, steps) ==
    [c EXCEPT !.entered = SubSeq(<<Transport(c), "ClientSession">>, 1,
                                 IF steps >= 2 THEN 2 ELSE steps),
              !.session = IF steps >= 2 THEN "ClientSession" ELSE c.session,
              !.initialized = IF steps >= 2 THEN steps >= 3 ELSE c.initialized]

\* what happened to the steps of a connect: step failed_at raised exc
ConnectFailure(failed_at, exc) == [kind |-> "raise", step |-> failed_at, exc |-> exc]

connect(c, failed_at, exc) ==
    IF failed_at = 0
    THEN [ConnectReached(Connecting(c), 3) EXCEPT !.last = ReturnsNone("connect")]
    ELSE IF IsException(exc)
    THEN [close(ConnectReached(Connecting(c), failed_at - 1)) EXCEPT
             !.last = Raises("connect", FALSE, ConnectFailure(failed_at, exc),
                             "ConnectionError")]
    ELSE [ConnectReached(Connecting(c), failed_at - 1) EXCEPT
             !.last = Raises("connect", FALSE, ConnectFailure(failed_at, exc), exc)]

ToolVars == <<fs, tool, pc, idx, missing, has_errors, stdout, exit_code, applied,
              opened_w, before, runs, params_str, params_out, wbuf, shard>>

Connect ==
    /\ tool = "client"
    /\ client.leaked + Len(client.entered) <= MaxLeaked
    /\ \E failed_at \in 0..3 : \E exc \in SessionErrors :
           client' = connect(client, failed_at, exc)
    /\ UNCHANGED ToolVars

Close ==
    /\ tool = "client"
    /\ client' = [close(client) EXCEPT !.last = ReturnsNone("close")]
    /\ UNCHANGED ToolVars

CallTool ==
    /\ tool = "client"
    /\ \E reply \in CallReplies :
           client' = [client EXCEPT !.last = call_tool(client, reply)]
    /\ UNCHANGED ToolVars

ListTools ==
    /\ tool = "client"
    /\ \E reply \in ListReplies :
           client' = [client EXCEPT !.last = list_tools(client, reply)]
    /\ UNCHANGED ToolVars

-----------------------------------------------------------------------------
(* server/get_shard_packages.py *)

MaxShards == 3        \* largest shard_total given on the command line
MaxLines == 3         \* lines on standard input

\* command-line arguments: numbers around the range of shards, and a word
ShardArgs == {ToStr(n) : n \in 0..(MaxShards + 1)} \cup {"-1", "x"}

ShardArgvs ==
    {<<"get_shard_packages.py">>}
    \cup {<<"get_shard_packages.py", a>> : a \in ShardArgs}
    \cup {<<"get_shard_packages.py", a, b>> : a \in ShardArgs, b \in ShardArgs}

\* lines of standard input: package paths (one of them padded), an empty line
ShardLines == {"./pkg/a", " ./pkg/b ", ""}

ShardStdins == UNION {[1..n -> ShardLines] : n \in 0..MaxLines}

\* int(s) for a decimal numeral with an optional minus sign; ValueError otherwise
DigitValue(ch) == CHOOSE d \in 0..9 : DigitStr(d) = ch

RECURSIVE Decimal(_)
Decimal(s) ==
    IF Len(s) = 0 THEN 0
    ELSE Decimal(SubSeq(s, 1, Len(s) - 1)) * 10 + DigitValue(SubSeq(s, Len(s), Len(s)))

IsNumeral(s) == Len(s) > 0 /\ \A n \in 1..Len(s) : SubSeq(s, n, n) \in Digits

int(s) ==
    IF IsNumeral(s) THEN [ok |-> TRUE, value |-> Decimal(s)]
    ELSE IF StartsWith(s, "-") /\ IsNumeral(SubSeq(s, 2, Len(s)))
    THEN [ok |-> TRUE, value |-> 0 - Decimal(SubSeq(s, 2, Len(s)))]
    ELSE [ok |-> FALSE, value |-> 0]

\* a % b of Python for a >= 0 and b # 0: the result has the sign of b
PyMod(a, b) ==
    IF b > 0 THEN a % b ELSE 0 - (((0 - b) - (a % (0 - b))) % (0 - b))

\* the lines of standard input, stripped, without the empty ones
ReadPackages(stdin) ==
    SelectSeq([n \in 1..Len(stdin) |-> Strip(stdin[n])], LAMBDA line : line # "")

\* the test of the selection loop on the package at position count
SelectsZeroBased(count, shard_index, shard_total) ==
    PyMod(count, shard_total) = shard_index

Selects(count, shard_index, shard_total) ==
    PyMod(count, shard_total) + 1 = shard_index

\* the selection loop over packages, count running from 0
RECURSIVE SelectPackages(_, _, _)
SelectPackages(packages, shard_index, shard_total) ==
    IF packages = <<>> THEN <<>>
    ELSE LET count == Len(packages) - 1
             earlier == SelectPackages(SubSeq(packages, 1, count), shard_index,
                                       shard_total)
         IN  IF Selects(count, shard_index, shard_total)
             THEN Append(earlier, packages[count + 1])
             ELSE earlier

ShardVars == <<fs, tool, idx, missing, has_errors, applied, opened_w, before, runs,
               params_str, params_out, wbuf, client>>

\* main: usage error, parsing of the arguments, reading, selection, output
ShardMain ==
    /\ tool = "get_shard_packages"
    /\ pc = "idle"
    /\ IF Len(shard.argv) < 3
       THEN /\ stdout' = Append(stdout,
                    "Usage: python3 get_shard_packages.py <shard_index> <shard_total>")
            /\ exit_code' = 1
            /\ pc' = "done"
            /\ shard' = shard
       ELSE LET shard_index == int(shard.argv[2])
                shard_total == int(shard.argv[3])
                packages == ReadPackages(shard.stdin)
            IN  IF ~shard_index.ok \/ ~shard_total.ok
                THEN /\ pc' = "aborted"
                     /\ exit_code' = 1
                     /\ UNCHANGED <<stdout, shard>>
                ELSE IF shard_total.value = 0 /\ packages # <<>>
                THEN /\ pc' = "aborted"
                     /\ exit_code' = 1
                     /\ stdout' = stdout
                     /\ shard' = [shard EXCEPT !.packages = packages]
                ELSE LET selected_packages ==
                             SelectPackages(packages, shard_index.value,
                                            shard_total.value)
                     IN  /\ stdout' = Append(stdout, Join(selected_packages, " "))
                         /\ exit_code' = 0
                         /\ pc' = "done"
                         /\ shard' = [shard EXCEPT
                                          !.packages = packages,
                                          !.selected_packages = selected_packages]
    /\ UNCHANGED ShardVars

-----------------------------------------------------------------------------
(* Specifications *)

InitCommon ==
    /\ pc = "idle"
    /\ idx = 0
    /\ missing = <<>>
    /\ has_errors = FALSE
    /\ stdout = <<>>
    /\ exit_code = -1
    /\ applied = <<>>
    /\ opened_w = <<>>
    /\ runs = 0
    /\ wbuf = ""

\* fix mode, run up to MaxRuns times on a tree
InitFix ==
    /\ InitCommon
    /\ tool = "idle"
    /\ fs \in FixTrees
    /\ before = fs
    /\ params_str = ""
    /\ params_out = <<>>
    /\ client = "none"
    /\ shard = "none"

NextFix ==
    StartFix \/ FixVisit \/ FixWrite \/ FixWriteFails \/ FixAbort \/ FixKill \/ FixExit

SpecFix == InitFix /\ [][NextFix]_vars

\* the three checkers, run on a tree
InitCheck ==
    /\ InitCommon
    /\ tool = "idle"
    /\ fs \in CheckTrees
    /\ before = fs
    /\ params_str = ""
    /\ params_out = <<>>
    /\ client = "none"
    /\ shard = "none"

NextCheck ==
    \/ StartTs \/ TsVisit \/ TsAbort \/ TsExit
    \/ StartJs \/ JsVisit \/ JsExit
    \/ StartScript \/ ScriptVisit \/ ScriptAbort \/ ScriptExit

SpecCheck == InitCheck /\ [][NextCheck]_vars

\* extract_params on one parameter list
InitParams ==
    /\ InitCommon
    /\ tool = "extract_params"
    /\ fs = <<>>
    /\ before = <<>>
    /\ params_str \in ParamTexts
    /\ params_out = <<>>
    /\ client = "none"
    /\ shard = "none"

NextParams == ExtractParams

SpecParams == InitParams /\ [][NextParams]_vars

\* a Client, connected, called and closed in any order
InitClient ==
    /\ InitCommon
    /\ tool = "client"
    /\ fs = <<>>
    /\ before = <<>>
    /\ params_str = ""
    /\ params_out = <<>>
    /\ client \in {NewClient(u) : u \in Urls}
    /\ shard = "none"

NextClient == Connect \/ Close \/ CallTool \/ ListTools

SpecClient == InitClient /\ [][NextClient]_vars

\* get_shard_packages.py run once on a command line and a standard input
InitShard ==
    /\ InitCommon
    /\ tool = "get_shard_packages"
    /\ fs = <<>>
    /\ before = <<>>
    /\ params_str = ""
    /\ params_out = <<>>
    /\ client = "none"
    /\ shard \in {[argv |-> argv, stdin |-> stdin, packages |-> <<>>,
                   selected_packages |-> <<>>] :
                      argv \in ShardArgvs, stdin \in ShardStdins}

NextShard == ShardMain

SpecShard == InitShard /\ [][NextShard]_vars

\* fix mode, and check mode on what a finished fix run has left
InitFixCheck ==
    /\ InitCommon
    /\ tool = "idle"
    /\ fs \in FixCheckTrees
    /\ before = fs
    /\ params_str = ""
    /\ params_out = <<>>
    /\ client = "none"
    /\ shard = "none"

NextFixCheck ==
    \/ NextFix
    \/ TsAfterFix \/ TsVisit \/ TsExit
    \/ JsAfterFix \/ JsVisit \/ JsExit

SpecFixCheck == InitFixCheck /\ [][NextFixCheck]_vars

-----------------------------------------------------------------------------
(* The properties *)

Lines(content) == Split(content, "\n")

\* a file without any comment
Uncommented(content) == ~Contains(content, "/*") /\ ~Contains(content, "//")

\* the diagnostics of a finished check run for line n of the file at path
DiagnosticsAt(path, n) ==
    {m \in 1..Len(missing) : missing[m].path = path /\ missing[m].line = n}

\* the entries of applied for the file at path
AppliedTo(path) == {n \in 1..Len(applied) : applied[n].path = path}

FixRunning == tool = "fix_ts_docs"
CheckDone(t) == tool = t /\ pc = "done"

\* C1: fix mode is idempotent from the first run on: a second run of process_file on
\* the output of the first leaves every file as the first run left it (before is
\* the tree as the current run found it).
C1_FixIsIdempotent == (FixRunning /\ runs >= 2) => fs = before

\* the beginnings of an exported function, class, interface, type or enum declaration
ExportedDeclHeads ==
    {"export function ", "export async function ", "export default function ",
     "export class ", "export abstract class ", "export interface ", "export type ",
     "export enum "}

IsExportedDecl(line) == \E h \in ExportedDeclHeads : StartsWith(line, h)

\* C2: coverage completeness: in a file without comments every exported function,
\* class, interface, type or enum declaration gets exactly one diagnostic of a
\* finished check run, at the 1-based line of the declaration.
C2_CoverageComplete ==
    (CheckDone("check_ts_doc") \/ CheckDone("check_jsdoc")) =>
        \A k \in 1..Len(fs) :
            (TsEligible(fs[k].path) /\ Uncommented(fs[k].content)) =>
                \A n \in 1..Len(Lines(fs[k].content)) :
                    IsExportedDecl(Lines(fs[k].content)[n]) =>
                        Cardinality(DiagnosticsAt(fs[k].path, n)) = 1

\* the file declares the local name n, the name followed by no further word character
LocalDeclHeads ==
    {"function ", "async function ", "const ", "class ", "interface ", "type ", "enum "}

DeclaresLocal(content, n) ==
    \E k \in 1..Len(Lines(content)) : \E h \in LocalDeclHeads :
        /\ StartsWith(Lines(content)[k], h \o n)
        /\ Ch(Lines(content)[k], Len(h \o n) + 1) \notin WordChars

\* the file ends in a named export block of alpha and of beta under the alias gamma
ExportsAliased(content) ==
    \E e \in {"export { alpha, beta as gamma }", "export { beta as gamma, alpha };"} :
        Lines(content)[Len(Lines(content))] = e

\* C3: alias resolution: for a block `export { alpha, beta as gamma }` over two
\* undocumented declarations of the same file, check_ts_doc reports alpha and reports
\* beta under its local name, and no diagnostic names gamma.
C3_AliasResolved ==
    CheckDone("check_ts_doc") =>
        \A k \in 1..Len(fs) :
            (/\ TsEligible(fs[k].path)
             /\ Uncommented(fs[k].content)
             /\ ExportsAliased(fs[k].content)
             /\ DeclaresLocal(fs[k].content, "alpha")
             /\ DeclaresLocal(fs[k].content, "beta")) =>
                /\ \E m \in 1..Len(missing) :
                       missing[m].path = fs[k].path /\ StartsWith(missing[m].name, "alpha ")
                /\ \E m \in 1..Len(missing) :
                       missing[m].path = fs[k].path /\ StartsWith(missing[m].name, "beta ")
                /\ \A m \in 1..Len(missing) :
                       missing[m].path = fs[k].path => ~Contains(missing[m].text, "gamma")

\* C4: destructuring resolution: the parameter list ({ id, name: displayName, onClick })
\* yields exactly id, displayName, onClick, in that order.
C4_RenamedPropertyBinding ==
    (pc = "done" /\ params_str = "{ id, name: displayName, onClick }") =>
        params_out = <<"id", "displayName", "onClick">>

\* a doc block, then blank lines, then one or more decorator lines, then a declaration
DecoratedDocumented(content) ==
    \E block \in {<<"/**", " * Documented.", " */">>, <<"/** Documented. */">>} :
    \E nb \in 0..MaxBlank : \E nd \in 1..MaxDecorators : \E d \in CheckDecls :
        content = Join(block \o Repeat("", nb) \o Repeat("@Injectable()", nd) \o <<d>>,
                       "\n")

\* C5: decorator tolerance: a declaration under decorator lines, blank lines and a
\* doc block is documented: a finished check run has no diagnostic for its file.
C5_DecoratorsTolerated ==
    (CheckDone("check_ts_doc") \/ CheckDone("check_jsdoc")) =>
        \A k \in 1..Len(fs) :
            DecoratedDocumented(fs[k].content) =>
                \A m \in 1..Len(missing) : missing[m].path # fs[k].path

\* the lines of a doc block that hold an @param tag, and the ones that document p
ParamLines(block) == {k \in 1..Len(block) : Contains(block[k], "@param")}
DocumentsParam(block, p) ==
    {k \in ParamLines(block) : Contains(block[k] \o " ", " " \o p \o " ")}

\* the lines of a doc block that hold description text
DescLines(block) ==
    {k \in 1..Len(block) :
        /\ ~Contains(block[k], "@")
        /\ Strip(block[k]) \notin {"/**", "*/", "*"}
        /\ ~(StartsWith(Strip(block[k]), "/**") /\ EndsWith(Strip(block[k]), "*/"))}

HasLine(block, line) == \E k \in 1..Len(block) : block[k] = line

\* the block had a description and documented two of the three parameters
TwoOfThree(e) ==
    /\ Len(e.params) = 3
    /\ DescLines(e.old) # {}
    /\ Cardinality({q \in 1..3 : DocumentsParam(e.old, e.params[q]) # {}}) = 2
    /\ Cardinality(ParamLines(e.old)) = 2

\* C6: non-destructive merge: an update of a block that had a description and
\* documented two of the three parameters keeps the description lines and the two
\* @param lines as they were and adds exactly one @param line.
C6_MergeKeepsAuthoredLines ==
    FixRunning =>
        \A n \in 1..Len(applied) :
            (applied[n].op = "update" /\ TwoOfThree(applied[n])) =>
                /\ \A k \in DescLines(applied[n].old) \cup ParamLines(applied[n].old) :
                       HasLine(applied[n].new, applied[n].old[k])
                /\ Cardinality({k \in ParamLines(applied[n].new) :
                                   ~HasLine(applied[n].old, applied[n].new[k])}) = 1

\* the block the synthesizer writes above a declaration
Synthesized(name, kind, params) ==
    <<"/**">> \o generate_doc_lines(name, kind, params) \o <<" */">>

\* C7: generic-placeholder replacement: when the block of a declaration is the one
\* synthesized for it without parameters and the declaration now has parameters, the
\* update writes the block freshly synthesized for the declaration.
C7_PlaceholderReplaced ==
    FixRunning =>
        \A n \in 1..Len(applied) :
            (/\ applied[n].op = "update"
             /\ applied[n].params # <<>>
             /\ applied[n].old = Synthesized(applied[n].name, applied[n].kind, <<>>)) =>
                applied[n].new = Synthesized(applied[n].name, applied[n].kind,
                                             applied[n].params)

\* C8: a finished check run has a non-zero exit status exactly when it produced a
\* diagnostic.
C8_ExitStatusTellsDiagnostics ==
    (CheckDone("check_ts_doc") \/ CheckDone("check_jsdoc") \/ CheckDone("check_ts_docs"))
        => ((exit_code # 0) <=> (missing # <<>>))

\* C9: in fix mode a file to which no insertion and no update was applied is not
\* opened for writing and keeps its content.
C9_WrittenOnlyIfApplied ==
    FixRunning =>
        \A k \in 1..Len(fs) :
            AppliedTo(fs[k].path) = {} =>
                /\ \A n \in 1..Len(opened_w) : opened_w[n] # fs[k].path
                /\ fs[k].content = before[k].content

\* a finished fix run that skipped an update of the only declaration it found
C9_Witness ==
    /\ CheckDone("fix_ts_docs")
    /\ applied = <<>>
    /\ opened_w = <<>>
    /\ \E n \in 1..Len(stdout) : StartsWith(stdout[n], "Warning: Index mismatch for ")
    /\ \A k \in 1..Len(fs) : FixEligible(fs[k].path) /\ fs[k].content = before[k].content

\* the line fix mode is to print for an applied change
ChangeLine(e) ==
    (IF e.op = "insert" THEN "Added doc for " ELSE "Updated doc for ")
        \o e.name \o " in " \o e.path

\* C10: fix mode prints exactly one line per applied change, `Added doc for <name> in
\* <path>` or `Updated doc for <name> in <path>`, and no such line otherwise.
C10_OneLinePerChange ==
    CheckDone("fix_ts_docs") =>
        /\ \A n \in 1..Len(applied) :
               Cardinality({k \in 1..Len(stdout) : stdout[k] = ChangeLine(applied[n])})
                   = Cardinality({m \in 1..Len(applied) :
                                     ChangeLine(applied[m]) = ChangeLine(applied[n])})
        /\ \A k \in 1..Len(stdout) :
               (StartsWith(stdout[k], "Added doc for ")
                \/ StartsWith(stdout[k], "Updated doc for ")) =>
                   \E n \in 1..Len(applied) : stdout[k] = ChangeLine(applied[n])

\* the diagnostics of a finished run for the file at path that name the local name n
DiagnosticsNaming(path, n) ==
    {m \in 1..Len(missing) :
        missing[m].path = path /\ StartsWith(missing[m].name, n \o " ")}

ExportsTwice(content) ==
    Lines(content)[Len(Lines(content))] = "export { alpha, alpha as gamma }"

\* C11: one diagnostic per undocumented exported declaration: for a block that lists
\* the undocumented local declaration alpha twice, once under its own name and once
\* under the alias gamma, a finished check_ts_doc run holds exactly one diagnostic
\* for alpha.
C11_OneDiagnosticPerDeclaration ==
    CheckDone("check_ts_doc") =>
        \A k \in 1..Len(fs) :
            (/\ TsEligible(fs[k].path)
             /\ Uncommented(fs[k].content)
             /\ ExportsTwice(fs[k].content)
             /\ DeclaresLocal(fs[k].content, "alpha")) =>
                Cardinality(DiagnosticsNaming(fs[k].path, "alpha")) = 1

\* the 1-based numbers of the lines of the file that are a named export block with a
\* module-source suffix
ReExportLines(content) ==
    {n \in 1..Len(Lines(content)) :
        /\ StartsWith(Lines(content)[n], "export {")
        /\ Contains(Lines(content)[n], "} from ")}

\* C12: a named export block followed by `from '...'` is a re-export and is skipped:
\* a finished check_ts_doc run holds no diagnostic at the line of such a block, also
\* when the file declares undocumented local names that the block lists.
C12_ReExportSkipped ==
    CheckDone("check_ts_doc") =>
        \A k \in 1..Len(fs) :
            TsEligible(fs[k].path) =>
                \A n \in ReExportLines(fs[k].content) : DiagnosticsAt(fs[k].path, n) = {}

\* the file ends in a named export block of alpha whose braces span several lines
ExportsMultiLine(content) ==
    /\ Len(Lines(content)) >= 4
    /\ SubSeq(Lines(content), Len(Lines(content)) - 3, Len(Lines(content)))
           = <<"export {", "  alpha,", "  beta as gamma", "}">>

\* C13: named export blocks are resolved also when their braces span several lines:
\* for the undocumented local declaration alpha listed in such a block, a finished
\* check_ts_doc run holds a diagnostic for alpha.
C13_MultiLineBlockResolved ==
    CheckDone("check_ts_doc") =>
        \A k \in 1..Len(fs) :
            (/\ TsEligible(fs[k].path)
             /\ Uncommented(fs[k].content)
             /\ ExportsMultiLine(fs[k].content)
             /\ DeclaresLocal(fs[k].content, "alpha")) =>
                DiagnosticsNaming(fs[k].path, "alpha") # {}

\* the tree holds a file that cannot be read
HasUnreadable == \E k \in 1..Len(fs) : ~fs[k].readable

\* C14: an unreadable file is logged and skipped: no run over a tree that holds one
\* is ended by the read error, and a finished check run over such a tree holds the
\* diagnostic of every other file that is an undocumented exported declaration.
C14_UnreadableSkipped ==
    HasUnreadable =>
        /\ pc # "aborted"
        /\ \A t \in {"check_ts_doc", "check_jsdoc", "check_ts_docs"} :
               CheckDone(t) =>
                   \A k \in 1..Len(fs) :
                       (fs[k].readable /\ fs[k].content = "export type Id = string") =>
                           \E m \in 1..Len(missing) : missing[m].path = fs[k].path

\* C15: file rewriting is all-or-nothing: at every instant of a fix run every file
\* holds either the complete content it had when the run started or the complete
\* content process_file reconstructs from it, also after a failed write and after
\* the process was stopped.
C15_AllOrNothing ==
    FixRunning =>
        \A k \in 1..Len(fs) :
            \/ fs[k].content = before[k].content
            \/ fs[k].content = process_file(fs[k].path, before[k].content).content

\* the text of a line of a doc block, without the comment markers
LineText(line) ==
    LET a == Strip(line)
        b == IF StartsWith(a, "/**") THEN From(a, 3) ELSE a
        c == IF EndsWith(b, "*/") THEN Upto(b, Len(b) - 2) ELSE b
    IN  Strip(LStripSet(c, {"*"}))

\* the authored content lines of a doc block: the non-blank lines that are neither
\* an @param nor an @returns line
AuthoredLines(block) ==
    {k \in 1..Len(block) :
        /\ LineText(block[k]) # ""
        /\ ~StartsWith(LineText(block[k]), "@param")
        /\ ~StartsWith(LineText(block[k]), "@return")}

\* C16: doc merging never discards authored content: the text of every description
\* line and of every tag line other than @param and @returns of the block an update
\* replaces is the text of a line of the block the update writes.
C16_AuthoredContentKept ==
    FixRunning =>
        \A n \in 1..Len(applied) :
            applied[n].op = "update" =>
                \A k \in AuthoredLines(applied[n].old) :
                    \E j \in 1..Len(applied[n].new) :
                        LineText(applied[n].new[j]) = LineText(applied[n].old[k])

\* the step is a call of call_tool on a connected client
CallOnConnected == client.session # "None" /\ client'.last.op = "call_tool"

\* the call returned what the result holds: the text of a single text item, the
\* content list in every other case
ReturnsResult(o) ==
    IF Len(o.reply.content) = 1 /\ o.reply.content[1].type = "text"
    THEN o.raised = "" /\ o.returned = "text" /\ o.text = o.reply.content[1].text
    ELSE o.raised = "" /\ o.returned = "list" /\ o.content = o.reply.content

\* the client is as connected after the step as it was before
StaysConnected ==
    /\ client'.session = client.session
    /\ client'.initialized = client.initialized
    /\ client'.has_stack = client.has_stack
    /\ client'.entered = client.entered

\* C17 as stated: on a connected client call_tool raises ToolExecutionError exactly
\* when the result of the session is flagged isError or the session call raises,
\* whatever it raises; otherwise it returns the text of a single text item and the
\* content list in every other case; the client stays connected.
C17_AnyRaiseIsWrapped ==
    [][CallOnConnected =>
          /\ (client'.last.raised = "ToolExecutionError")
                 <=> (client'.last.reply.isError \/ client'.last.reply.kind = "raise")
          /\ (client'.last.raised # "ToolExecutionError") =>
                 ReturnsResult(client'.last)
          /\ StaysConnected]_vars

\* C17: on a connected client call_tool raises ToolExecutionError exactly when the
\* result of the session is flagged isError or the session call raises an Exception;
\* an exception of the session call that is not an Exception (CancelledError,
\* KeyboardInterrupt) leaves call_tool as it is; otherwise call_tool returns the text
\* of a single text item and the content list in every other case; the client stays
\* connected in every outcome.
C17_CallToolOutcome ==
    [][CallOnConnected =>
          /\ (client'.last.raised = "ToolExecutionError")
                 <=> \/ client'.last.reply.isError
                     \/ /\ client'.last.reply.kind = "raise"
                        /\ IsException(client'.last.reply.exc)
          /\ (client'.last.reply.kind = "raise"
                 /\ ~IsException(client'.last.reply.exc)) =>
                 client'.last.raised = client'.last.reply.exc
          /\ (client'.last.reply.kind = "result" /\ ~client'.last.reply.isError) =>
                 ReturnsResult(client'.last)
          /\ StaysConnected]_vars

\* a connected client whose call_tool returned the text of a single text item
C17_Witness ==
    /\ tool = "client"
    /\ client.session # "None"
    /\ client.last.op = "call_tool"
    /\ client.last.called
    /\ client.last.returned = "text"
    /\ client.last.text = "success"

\* the file is an ordinary block comment, blank and decorator lines, and an exported
\* declaration that check_ts_doc.pattern matches
UnderPlainComment(content) ==
    /\ Lines(content)[1] = "/* plain */"
    /\ ~Contains(content, "/**")
    /\ IsExportedDecl(Lines(content)[Len(Lines(content))])
    /\ ~Contains(content, "async") /\ ~Contains(content, "abstract")

\* C18: only a block opened by `/**` is documentation: a declaration whose nearest
\* preceding line that is not skipped closes an ordinary block comment `/* ... */`
\* is undocumented, and a finished check run holds a diagnostic for it.
C18_PlainCommentIsNoDoc ==
    (CheckDone("check_ts_doc") \/ CheckDone("check_jsdoc")) =>
        \A k \in 1..Len(fs) :
            (TsEligible(fs[k].path) /\ UnderPlainComment(fs[k].content)) =>
                DiagnosticsAt(fs[k].path, Len(Lines(fs[k].content))) # {}

\* C19: a lint-suppression comment between a doc block and its declaration does not
\* break doc continuity: fix mode takes the declaration for documented and inserts
\* no doc block into such a file.
C19_LintCommentKeepsDoc ==
    FixRunning =>
        \A k \in 1..Len(fs) :
            before[k].content \in LintContents =>
                \A n \in AppliedTo(fs[k].path) : applied[n].op # "insert"

\* what an @param line of a doc block says: after the tag an optional {type}, the
\* name of the parameter, an optional dash, the description; the name is "" when
\* the line names no parameter
ParamEntry(line) ==
    LET t == LineText(line)
        j == SkipWs(t, 7)
        brace == IF Ch(t, j) = "{" THEN FindFrom(t, "}", j + 1) ELSE 0
        n0 == IF brace > 0 THEN SkipWs(t, brace + 1) ELSE j
        n1 == SkipSet(t, WordChars, n0)
        k == SkipWs(t, n1)
        k2 == IF Ch(t, k) = "-" THEN SkipWs(t, k + 1) ELSE k
    IN  [name |-> SubSeq(t, n0, n1 - 1), desc |-> Strip(From(t, k2 - 1))]

\* the @param lines of a block that name a parameter, in the order of the block
ParamEntries(block) ==
    LET IsParam(line) ==
            StartsWith(LineText(line), "@param") /\ ParamEntry(line).name # ""
        lines == SelectSeq(block, IsParam)
    IN  [k \in 1..Len(lines) |-> ParamEntry(lines[k])]

\* the description the old entries give to p (the last one, if several do)
Described(entries, p) == \E k \in 1..Len(entries) : entries[k].name = p
OldDescription(entries, p) ==
    entries[CHOOSE k \in 1..Len(entries) :
                /\ entries[k].name = p
                /\ \A m \in k + 1..Len(entries) : entries[m].name # p].desc

\* the @param lines a merge has to write for the parameters params over the old
\* entries: the current parameters in the order of the declaration, then the old
\* entries of parameters that are no longer in the signature
MergedEntries(entries, params) ==
    LET IsStale(x) == \A q \in 1..Len(params) : params[q] # x.name
    IN  [q \in 1..Len(params) |->
            [name |-> params[q],
             desc |-> IF Described(entries, params[q])
                      THEN OldDescription(entries, params[q])
                      ELSE get_param_desc(params[q])]]
        \o SelectSeq(entries, IsStale)

\* C20: in a merged doc block the @param lines of the current parameters stand in
\* the order of the declaration, each with the description it had in the old block
\* or else a synthesized one, and the old @param lines of parameters that are no
\* longer in the signature follow them, descriptions kept.
C20_MergedParamOrder ==
    FixRunning =>
        \A n \in 1..Len(applied) :
            applied[n].op = "update" =>
                ParamEntries(applied[n].new)
                    = MergedEntries(ParamEntries(applied[n].old), applied[n].params)

\* the lines of a doc block that hold a return tag
ReturnLines(block) == {k \in 1..Len(block) : Contains(block[k], "@return")}

\* C21: setter exemption: for a declaration whose name begins with `set` neither the
\* synthesizer nor the merger emits a return line: the block that an insert or an
\* update writes holds no return line that the block before it did not hold.
C21_SetterHasNoReturnLine ==
    FixRunning =>
        \A n \in 1..Len(applied) :
            StartsWith(applied[n].name, "set") =>
                \A k \in ReturnLines(applied[n].new) :
                    HasLine(applied[n].old, applied[n].new[k])

ParamsDone == tool = "extract_params" /\ pc = "done"

\* C22: rest parameters and empty arguments are dropped: no element of the result
\* of extract_params is empty or begins with `...`.
C22_NoSpreadNoEmpty ==
    ParamsDone =>
        \A k \in 1..Len(params_out) :
            params_out[k] # "" /\ ~StartsWith(params_out[k], "...")

\* the positions of the file text where an exported function declaration begins
FuncHeads == {"export function ", "export async function "}

FuncStarts(content) ==
    {i \in 1..Len(content) :
        /\ i = 1 \/ Ch(content, i - 1) = "\n"
        /\ \E h \in FuncHeads : LitAt(content, i, h)}

\* the position of the `)` that balances the `(` read before position i, 0 if none
RECURSIVE BalancedClose(_, _, _)
BalancedClose(s, i, depth) ==
    IF i > Len(s) THEN 0
    ELSE IF Ch(s, i) = "(" THEN BalancedClose(s, i + 1, depth + 1)
    ELSE IF Ch(s, i) = ")"
         THEN (IF depth = 1 THEN i ELSE BalancedClose(s, i + 1, depth - 1))
    ELSE BalancedClose(s, i + 1, depth)

\* the parameters of the signature that begins at position i: the raw text runs from
\* the first `(` to the `)` that balances it
SignatureParams(content, i) ==
    LET open == FindFrom(content, "(", i)
        shut == BalancedClose(content, open + 1, 1)
    IN  IF open = 0 \/ shut = 0 THEN <<>>
        ELSE extract_params(SubSeq(content, open + 1, shut - 1))

FixDone == tool = "fix_ts_docs" /\ pc = "done"

\* the lines hold an @param line for p
HasParamLine(lines, p) ==
    \E k \in 1..Len(lines) : StartsWith(lines[k], " * @param " \o p \o " - ")

\* C23: the raw parameter text of a function declaration ends at the `)` that
\* balances its first `(`: after a finished fix run over a file without comments,
\* every parameter of every exported function signature of the file, also of one
\* with parentheses in a parameter type or one that spans several lines, has its
\* @param line in the file.
C23_BalancedSignature ==
    FixDone =>
        \A k \in 1..Len(fs) :
            (/\ FixEligible(fs[k].path) /\ fs[k].readable
             /\ Uncommented(before[k].content)) =>
                \A i \in FuncStarts(before[k].content) :
                    \A q \in 1..Len(SignatureParams(before[k].content, i)) :
                        HasParamLine(Lines(fs[k].content),
                                     SignatureParams(before[k].content, i)[q])

\* C24: destructured properties with default values: the parameter list
\* ({ a = 1, b }: Props) yields exactly a, b, and no element of a result of
\* extract_params is a fragment of a pattern (holds a brace).
C24_DefaultsStripped ==
    ParamsDone =>
        /\ params_str = "{ a = 1, b }: Props" => params_out = <<"a", "b">>
        /\ \A k \in 1..Len(params_out) :
               ~Contains(params_out[k], "{") /\ ~Contains(params_out[k], "}")

\* the last call of the client was a connect one of whose steps raised
ConnectFailed ==
    /\ tool = "client"
    /\ client.last.op = "connect"
    /\ client.last.raised # ""

\* no session and no exit stack, and nothing the exit stack had entered is open
Disconnected ==
    /\ client.session = "None"
    /\ ~client.has_stack
    /\ client.entered = <<>>

\* C25: whenever opening the transport, opening the session or initialize() fails
\* during connect, the client has closed what it had opened, is disconnected (no
\* session, no exit stack), and connect raised ConnectionError and nothing else.
C25_FailedConnectDisconnects ==
    ConnectFailed => (client.last.raised = "ConnectionError" /\ Disconnected)

\* the same for the failures that are an Exception
ExceptionFailureDisconnects ==
    (ConnectFailed /\ IsException(client.last.reply.exc)) =>
        (client.last.raised = "ConnectionError" /\ Disconnected)

\* the client is not connected: it holds no session, or the session it holds was
\* never initialized (no connect has succeeded since the client was made or closed)
NotConnected == client.session = "None" \/ ~client.initialized

\* C26: whenever the client is not connected, list_tools and call_tool raise
\* ConnectionError without contacting a session and without changing the state of
\* the client.
C26_NotConnectedRaises ==
    [][(NotConnected /\ client'.last.op \in {"call_tool", "list_tools"}) =>
          /\ client'.last.raised = "ConnectionError"
          /\ ~client'.last.called
          /\ client' = [client EXCEPT !.last = client'.last]]_vars

\* the same for a client that holds no session
NoSessionRaises ==
    [][(client.session = "None" /\ client'.last.op \in {"call_tool", "list_tools"}) =>
          /\ client'.last.raised = "ConnectionError"
          /\ ~client'.last.called
          /\ client' = [client EXCEPT !.last = client'.last]]_vars

\* C27: fix mode closes every gap check mode reports: a check run started on what a
\* finished fix run has left holds no diagnostic for a file fix mode has processed,
\* whatever the form of its exported declarations.
C27_FixClosesEveryGap ==
    (CheckDone("check_ts_doc") \/ CheckDone("check_jsdoc")) =>
        \A k \in 1..Len(fs) :
            (FixEligible(fs[k].path) /\ fs[k].readable) =>
                \A m \in 1..Len(missing) : missing[m].path # fs[k].path

\* a line of a `/** ... */` block: it opens the block or starts with the asterisk
IsDocLine(line) == StartsWith(Strip(line), "/**") \/ StartsWith(Strip(line), "*")

\* the lines of a file outside its doc blocks: code, decorators, ordinary comments
OtherLines(content) == SelectSeq(Lines(content), LAMBDA line : ~IsDocLine(line))

\* C28: fix mode only inserts or replaces doc-comment lines: when a run has
\* finished, the lines of each file that are outside `/** ... */` blocks are the
\* ones the file had when the run started, unchanged and in the same order, also
\* when the comment directly above a declaration is an ordinary `/* */` block.
C28_OnlyDocLinesChange ==
    FixDone =>
        \A k \in 1..Len(fs) :
            fs[k].readable => OtherLines(fs[k].content) = OtherLines(before[k].content)

\* C29: the client never leaks an opened connection: no context is open in an exit
\* stack the client no longer holds, and once close() has returned no transport or
\* session context that a connect() opened is open, also when connect() was called
\* twice without a close in between.
C29_NoLeakedConnection ==
    tool = "client" =>
        /\ client.leaked = 0
        /\ client.last.op = "close" => client.entered = <<>>

\* the run has printed its selection
ShardDone == tool = "get_shard_packages" /\ pc = "done" /\ exit_code = 0

\* the positions, counted from 0, of the packages shard shard_index of shard_total
\* is to take
ShardPositions(n, shard_index, shard_total) ==
    {p \in 0..(n - 1) : (p % shard_total) + 1 = shard_index}

\* C30: shard selection partitions the package list: for shard_total >= 1 every
\* position of the list is selected by exactly one shard_index of 1..shard_total,
\* the one equal to (position mod shard_total) + 1; the run prints the packages at
\* the positions of its shard in input order, and selects nothing when its
\* shard_index is outside 1..shard_total.
C30_ShardsPartition ==
    (ShardDone /\ int(shard.argv[3]).value >= 1) =>
        LET shard_index == int(shard.argv[2]).value
            shard_total == int(shard.argv[3]).value
            packages == shard.packages
            selected == shard.selected_packages
            mine == ShardPositions(Len(packages), shard_index, shard_total)
        IN  /\ Len(selected) = Cardinality(mine)
            /\ \A k \in 1..Len(selected) :
                   /\ (shard_index - 1) + (k - 1) * shard_total \in mine
                   /\ selected[k] = packages[shard_index + (k - 1) * shard_total]
            /\ shard_index \notin 1..shard_total => selected = <<>>
            /\ \A p \in 0..(Len(packages) - 1) :
                   {j \in 1..shard_total : Selects(p, j, shard_total)}
                       = {(p % shard_total) + 1}

\* a shard of several has taken two of the three packages and left the middle one
C30_Witness ==
    /\ ShardDone
    /\ int(shard.argv[3]).value = 2
    /\ Len(shard.packages) = 3
    /\ shard.selected_packages = <<shard.packages[1], shard.packages[3]>>

=============================================================================
